---- MODULE Spec2Model ----
(***************************************************************************)
(* FSICFR solver of src/Projects/CFR/fsicfr.py: construction of the        *)
(* information-set graph by depth-first play of Dark Hex                   *)
(* (FSICFR.__init_board_topSorted / __topSort_play) and the two-pass       *)
(* training loop (FSICFR.train) over the Node records; and the            *)
(* construction of the StrategyGenerator of                                *)
(* src/darkhex/gui/strategy_generator.py.                                  *)
(*                                                                         *)
(* Cells are numbered 1..num_actions here (the code numbers them from 0).  *)
(* Floating point values are modelled as exact rationals <<n, d>>, d > 0,  *)
(* in lowest terms.  The rule engine (Projects.base.game.hex / darkHex) is *)
(* not part of the sources at hand; its operators below follow the         *)
(* interface the solver uses and the rules of Dark Hex.                    *)
(***************************************************************************)
EXTENDS Integers, Sequences, FiniteSets, TLC

VARIABLES
    phase,        \* "build", "built", "forward", "backward", "extract", "done", or a unit phase
    game,         \* the DarkHex engine object: [BOARD, BOARDS]
    history,      \* the engine's undo log (snapshots taken by step, popped by rewind)
    frames,       \* activation records of __topSort_play that are inside their loop
    call,         \* res argument of a call of __topSort_play not yet entered, or "none"
    returned,     \* TRUE when a call has returned and the caller has not yet rewound
    visited,      \* keys of visited set to True
    stack,        \* completion stack of __init_board_topSorted (infoSet keys)
    nodes,        \* FSICFR.nodes: the reversed stack (infoSet keys)
    nodes_dict,   \* FSICFR.nodes_dict: infoSet key -> Node
    regret,       \* train's regret buffer
    num_it,       \* train's num_of_iterations
    it,           \* train's loop variable
    idx,          \* position of the pass in its node list
    sample,       \* inputs of a unit run (SpecUnit) or of a constructor call (SpecGen)
    gen           \* the StrategyGenerator object (SpecGen only)

vars == <<phase, game, history, frames, call, returned, visited, stack, nodes,
          nodes_dict, regret, num_it, it, idx, sample, gen>>

\* Board dimensions the script builds and trains (fsicfr.py:264-265).
num_rows == 2
num_cols == 2
\* FSICFR.__init__: num_actions = num_cols * num_rows.
num_actions == num_cols * num_rows

\* Largest num_of_iterations passed to train.
MaxIter == 2
\* Unit runs of getStrategy draw each regretSum[a] from -MaxRegretSum..MaxRegretSum.
MaxRegretSum == 2
\* Unit runs of the backward pass draw regret[a] - u from -MaxVal..MaxVal.
MaxVal == 3
\* Unit runs draw T, visits and reach sums from 0..MaxWeight.
MaxWeight == 2

Cells == 1..num_actions

\* pieces (Projects.base.util.colors)
C_PLAYER1 == "B"
C_PLAYER2 == "W"
NEUTRAL == "."
Players == {C_PLAYER1, C_PLAYER2}

-----------------------------------------------------------------------------
(* No StrategyGenerator object: the value of gen where none is constructed. *)
NoGenerator == [attrs |-> {}]

-----------------------------------------------------------------------------
(* Exact rational arithmetic standing for Python/numpy float arithmetic. *)

Abs(x) == IF x < 0 THEN -x ELSE x

RECURSIVE Gcd(_, _)
Gcd(a, b) == IF b = 0 THEN a ELSE Gcd(b, a % b)

\* n/d in lowest terms with a positive denominator.  A zero denominator,
\* where numpy yields nan or an infinity, gives <<0, 0>>, <<1, 0>> or <<-1, 0>>.
Rat(n, d) ==
    LET g == Gcd(Abs(n), Abs(d))
        s == IF d < 0 THEN -1 ELSE 1
    IN  IF g = 0 THEN <<0, 0>> ELSE <<(s * n) \div g, (s * d) \div g>>

RInt(n) == <<n, 1>>
RZero == <<0, 1>>
ROne == <<1, 1>>

RAdd(x, y) ==
    LET g == Gcd(x[2], y[2])
    IN  Rat(x[1] * (y[2] \div g) + y[1] * (x[2] \div g), (x[2] \div g) * y[2])

RNeg(x) == <<-x[1], x[2]>>
RSub(x, y) == RAdd(x, RNeg(y))

RMul(x, y) ==
    LET g1 == Gcd(Abs(x[1]), y[2])
        g2 == Gcd(Abs(y[1]), x[2])
    IN  Rat((x[1] \div g1) * (y[1] \div g2), (x[2] \div g2) * (y[2] \div g1))

\* x / y for y # 0.
RDiv(x, y) == RMul(x, IF y[1] > 0 THEN <<y[2], y[1]>> ELSE <<-y[2], -y[1]>>)

RPos(x) == x[1] > 0
RGeq0(x) == x[1] >= 0
RLeq0(x) == x[1] <= 0

\* max(x, 0)
RMax0(x) == IF RPos(x) THEN x ELSE RZero

RECURSIVE RSumUpTo(_, _)
\* v[1] + ... + v[n]
RSumUpTo(v, n) == IF n = 0 THEN RZero ELSE RAdd(RSumUpTo(v, n - 1), v[n])
RSum(v) == RSumUpTo(v, Len(v))

-----------------------------------------------------------------------------
(* Rule engine. *)

reverse_player(p) == IF p = C_PLAYER2 THEN C_PLAYER1 ELSE C_PLAYER2

Count(board, x) == Cardinality({i \in 1..Len(board) : board[i] = x})

Row(i) == (i - 1) \div num_cols
Col(i) == (i - 1) % num_cols

\* Cells adjacent on the hexagonal grid.
cells_connected(i) ==
    {j \in Cells :
        \/ Row(j) = Row(i) /\ Abs(Col(j) - Col(i)) = 1
        \/ Col(j) = Col(i) /\ Abs(Row(j) - Row(i)) = 1
        \/ Row(j) = Row(i) - 1 /\ Col(j) = Col(i) + 1
        \/ Row(j) = Row(i) + 1 /\ Col(j) = Col(i) - 1}

RECURSIVE check_connections(_, _, _)
\* The cells of player p connected to the set seen.
check_connections(board, p, seen) ==
    LET more == {j \in Cells : board[j] = p /\ j \notin seen
                                /\ \E i \in seen : j \in cells_connected(i)}
    IN  IF more = {} THEN seen ELSE check_connections(board, p, seen \cup more)

\* C_PLAYER1 joins the top row to the bottom row, C_PLAYER2 the left column
\* to the right column.
Wins(board, p) ==
    LET first == {i \in Cells : board[i] = p
                     /\ IF p = C_PLAYER1 THEN Row(i) = 0 ELSE Col(i) = 0}
        chain == check_connections(board, p, first)
    IN  \E i \in chain :
           IF p = C_PLAYER1 THEN Row(i) = num_rows - 1 ELSE Col(i) = num_cols - 1

\* Stones of each player on a board that hides h stones of h_player.
StoneCount(board, p, h_player, h) ==
    Count(board, p) + (IF h_player = p THEN h ELSE 0)

\* Hex.game_status: the winner, "i" for an illegal position (legality
\* check only), else "=".
Hex_game_status(board, legality_check, h_player, h) ==
    LET c1 == StoneCount(board, C_PLAYER1, h_player, h)
        c2 == StoneCount(board, C_PLAYER2, h_player, h)
    IN  IF Wins(board, C_PLAYER1) THEN C_PLAYER1
        ELSE IF Wins(board, C_PLAYER2) THEN C_PLAYER2
        ELSE IF legality_check /\ ~(c1 = c2 \/ c1 = c2 + 1) THEN "i"
        ELSE "="

\* Hex.turn_info: C_PLAYER1 moves first and the players alternate.
Hex_turn_info(board, h_player, h) ==
    IF StoneCount(board, C_PLAYER1, h_player, h)
          <= StoneCount(board, C_PLAYER2, h_player, h)
    THEN C_PLAYER1 ELSE C_PLAYER2

EmptyBoard == [i \in Cells |-> NEUTRAL]

\* DarkHex(...): the true board and each player's view of it.
DarkHex_new == [BOARD |-> EmptyBoard,
                BOARDS |-> [p \in Players |-> EmptyBoard]]

DarkHex_turn_info(g) == Hex_turn_info(g.BOARD, "none", 0)

\* Stones of the opponent that player p has not seen.
totalHidden_for_player(g, p) ==
    Cardinality({i \in Cells : g.BOARD[i] = reverse_player(p)
                                 /\ g.BOARDS[p][i] # reverse_player(p)})

RECURSIVE EmptyCellsFrom(_, _)
\* The empty cells of a board from cell i on, in ascending order.
EmptyCellsFrom(board, i) ==
    IF i > Len(board) THEN <<>>
    ELSE IF board[i] = NEUTRAL THEN <<i>> \o EmptyCellsFrom(board, i + 1)
    ELSE EmptyCellsFrom(board, i + 1)

valid_moves_colors(g, p) == EmptyCellsFrom(g.BOARDS[p], 1)

\* DarkHex.step: the result ("f": the cell holds a hidden stone of the
\* opponent, which is revealed to the mover, who keeps the turn).
DarkHex_step_res(g, p, a) ==
    IF g.BOARD[a] # NEUTRAL THEN "f"
    ELSE Hex_game_status([g.BOARD EXCEPT ![a] = p], FALSE, "none", 0)

\* DarkHex.step: the engine after the move.
DarkHex_step(g, p, a) ==
    IF g.BOARD[a] # NEUTRAL
    THEN [g EXCEPT !.BOARDS[p][a] = g.BOARD[a]]
    ELSE [g EXCEPT !.BOARD[a] = p, !.BOARDS[p][a] = p]

-----------------------------------------------------------------------------
(* Node *)

get_infoset(player, board, h) == <<player, board, h>>

ZeroVec == [a \in Cells |-> RZero]

pos_actions_of(board) == EmptyCellsFrom(board, 1)

\* Node.__init__ with visits starting at 0 instead of 1 (line 30).
Node_zero_visits(board, player, h) ==
    [player |-> player, num_actions |-> Len(board), board |-> board, h |-> h,
     infoSet |-> get_infoset(player, board, h),
     strategy |-> ZeroVec, regretSum |-> ZeroVec, strategySum |-> ZeroVec,
     T |-> 0, u |-> RZero, pSum1 |-> ROne, pSum2 |-> ROne, visits |-> 0,
     pos_actions |-> pos_actions_of(board), is_terminal |-> FALSE]

\* Node.__init__; move_history is stored and never read (the infoSet at
\* line 20 leaves it out), so the record does not carry it.
Node(board, player, h) ==
    [player |-> player, num_actions |-> Len(board), board |-> board, h |-> h,
     infoSet |-> get_infoset(player, board, h),
     strategy |-> ZeroVec, regretSum |-> ZeroVec, strategySum |-> ZeroVec,
     T |-> 0, u |-> RZero, pSum1 |-> ROne, pSum2 |-> ROne, visits |-> 1,
     pos_actions |-> pos_actions_of(board), is_terminal |-> FALSE]


\* regret_matching without the clamp max(regretSum[a], 0) on the entries.
regret_matching_unclamped(regretSum) ==
    LET positive == [a \in DOMAIN regretSum |-> RMax0(regretSum[a])]
        normalizingSum == RSum(positive)
    IN  [a \in DOMAIN regretSum |->
            IF RPos(normalizingSum) THEN RDiv(regretSum[a], normalizingSum)
            ELSE Rat(1, Len(regretSum))]

\* Node.getStrategy, lines 37-51: regret matching on the positive regrets,
\* uniform over all num_actions indices when there is no positive regret.
regret_matching(regretSum) ==
    LET positive == [a \in DOMAIN regretSum |-> RMax0(regretSum[a])]
        normalizingSum == RSum(positive)
    IN  [a \in DOMAIN regretSum |->
            IF RPos(normalizingSum) THEN RDiv(positive[a], normalizingSum)
            ELSE Rat(1, Len(regretSum))]

\* The reach weight getStrategy adds the strategy with (lines 52-53).
reach_weight(n) == IF n.player = C_PLAYER1 THEN n.pSum1 ELSE n.pSum2

\* getStrategy with the fallback spread over the empty cells only.
getStrategy_legal_fallback(n) ==
    LET positive == [a \in DOMAIN n.regretSum |-> RMax0(n.regretSum[a])]
        normalizingSum == RSum(positive)
        strategy == [a \in DOMAIN n.regretSum |->
            IF RPos(normalizingSum) THEN RDiv(positive[a], normalizingSum)
            ELSE IF n.board[a] = NEUTRAL THEN Rat(1, Len(n.pos_actions))
            ELSE RZero]
    IN  [n EXCEPT !.strategy = strategy,
                  !.strategySum = [a \in DOMAIN strategy |->
                      RAdd(n.strategySum[a], RMul(strategy[a], reach_weight(n)))]]

\* Node.getStrategy: the node after the call (the call returns its strategy).
getStrategy(n) ==
    LET strategy == regret_matching(n.regretSum)
    IN  [n EXCEPT !.strategy = strategy,
                  !.strategySum = [a \in DOMAIN strategy |->
                      RAdd(n.strategySum[a], RMul(strategy[a], reach_weight(n)))]]

\* getAverageStrategy that divides by the total whatever its value.
getAverageStrategy_no_fallback(n) ==
    LET normalizingSum == RSum(n.strategySum)
    IN  [n EXCEPT !.strategySum = [a \in DOMAIN n.strategySum |->
            IF normalizingSum = RZero THEN Rat(n.strategySum[a][1], 0)
            ELSE RDiv(n.strategySum[a], normalizingSum)]]

\* getAverageStrategy with the fallback writing 1 at every index.
getAverageStrategy_fallback_ones(n) ==
    LET normalizingSum == RSum(n.strategySum)
    IN  [n EXCEPT !.strategySum = [a \in DOMAIN n.strategySum |->
            IF RPos(normalizingSum) THEN RDiv(n.strategySum[a], normalizingSum)
            ELSE ROne]]

\* Node.getAverageStrategy: the node after the call (the call returns its
\* strategySum, normalized in place).
getAverageStrategy(n) ==
    LET normalizingSum == RSum(n.strategySum)
    IN  [n EXCEPT !.strategySum = [a \in DOMAIN n.strategySum |->
            IF RPos(normalizingSum) THEN RDiv(n.strategySum[a], normalizingSum)
            ELSE Rat(1, Len(n.strategySum))]]

-----------------------------------------------------------------------------
(* FSICFR helpers *)

\* __add_stone that copies the board and leaves the stone out.
add_stone_not_placed(board, action, player) ==
    IF board[action] # NEUTRAL THEN <<>> ELSE board

\* FSICFR.__add_stone; the empty sequence stands for the result False.
add_stone(board, action, player) ==
    IF board[action] # NEUTRAL THEN <<>> ELSE [board EXCEPT ![action] = player]

\* FSICFR.__is_board_legal
is_board_legal(board, rev_player, player_turn, h) ==
    LET res == Hex_game_status(board, TRUE, rev_player, h)
        ct == Count(board, NEUTRAL)
    IN  ~(res = "i" \/ Hex_turn_info(board, rev_player, h) # player_turn \/ ct <= h)

\* The successors with the key of the revealed-stone successor made for the
\* other player, as if the turn passed with the move.
children_of_player_switch(n, a) ==
    LET own == add_stone(n.board, a, n.player)
        opp == add_stone(n.board, a, reverse_player(n.player))
    IN  IF own = <<>> THEN <<>>
        ELSE <<get_infoset(n.player, own, n.h)>>
             \o (IF n.h > 0
                 THEN <<get_infoset(reverse_player(n.player), opp, n.h - 1)>>
                 ELSE <<>>)

\* The successor infosets train derives from node n for action a
\* (lines 94-101 and 123-134): the own stone placed with the same h, then,
\* when h > 0, a stone of the other player at that cell with h - 1.
children_of(n, a) ==
    LET own == add_stone(n.board, a, n.player)
        opp == add_stone(n.board, a, reverse_player(n.player))
    IN  IF own = <<>> THEN <<>>
        ELSE <<get_infoset(n.player, own, n.h)>>
             \o (IF n.h > 0 THEN <<get_infoset(n.player, opp, n.h - 1)>> ELSE <<>>)

\* The stack handed back in the order it was filled.
Reverse_none(s) == s

RECURSIVE Reverse(_)
\* stack[-1::-1]
Reverse(s) == IF s = <<>> THEN <<>> ELSE Reverse(Tail(s)) \o <<Head(s)>>

-----------------------------------------------------------------------------
(* Graph construction: FSICFR.__init_board_topSorted and __topSort_play. *)

\* ext_infoSet of __topSort_play (line 186)
ext_infoSet(g) == <<g.BOARDS[C_PLAYER1], g.BOARDS[C_PLAYER2]>>

\* The player a call of __topSort_play with result res makes its node for
\* (lines 178, 200-202).
node_player(g, res) ==
    IF res = "f" \/ res = "=" THEN DarkHex_turn_info(g) ELSE res

\* The node a call of __topSort_play creates (lines 187-191, 203-208).
node_of_call(g, res) ==
    LET player == node_player(g, res)
    IN  [Node(g.BOARDS[player], player, totalHidden_for_player(g, player))
            EXCEPT !.is_terminal = (res # "f" /\ res # "=")]

\* __topSort_play without the returns at lines 193 and 215.
passes_legality_no_return(g, res) == TRUE

\* Whether the call goes on past its legality checks (lines 192-193 and
\* 210-215): the node's own check, or, unless the call follows a collision,
\* the check of the other player's board one step ahead.
passes_legality(g, res) ==
    LET player == node_player(g, res)
        rev_player == reverse_player(player)
        own == is_board_legal(g.BOARDS[player], rev_player, player,
                              totalHidden_for_player(g, player))
        ahead == is_board_legal(g.BOARDS[rev_player], player, rev_player,
                                totalHidden_for_player(g, rev_player))
    IN  IF res = "f" THEN own ELSE own \/ ahead

\* Lines 222-224 and 232-234: the node enters the map and the stack once.
insert_node(dict, n) ==
    IF n.infoSet \in DOMAIN dict THEN dict ELSE dict @@ (n.infoSet :> n)

\* The push without the test at lines 222 and 232.
push_node_always(dict, stk, n) == Append(stk, n.infoSet)

push_node(dict, stk, n) ==
    IF n.infoSet \in DOMAIN dict THEN stk ELSE Append(stk, n.infoSet)

TrainVarsUnchanged == UNCHANGED <<regret, num_it, it, idx, sample, gen>>

\* A call of __topSort_play from its entry to its first return or to the
\* start of its loop over valid_moves (lines 178-227).
TopSortEnter ==
    /\ phase = "build"
    /\ call # "none"
    /\ LET node == node_of_call(game, call)
           ext == ext_infoSet(game)
       IN  IF ~passes_legality(game, call) \/ ext \in visited
           THEN /\ returned' = TRUE
                /\ UNCHANGED <<visited, nodes_dict, stack, frames>>
           ELSE /\ visited' = visited \cup {ext}
                /\ IF node.is_terminal
                   THEN /\ nodes_dict' = insert_node(nodes_dict, node)
                        /\ stack' = push_node(nodes_dict, stack, node)
                        /\ returned' = TRUE
                        /\ UNCHANGED frames
                   ELSE /\ frames' = Append(frames,
                               [node |-> node,
                                valid_moves |-> valid_moves_colors(game, node.player)])
                        /\ returned' = FALSE
                        /\ UNCHANGED <<nodes_dict, stack>>
    /\ call' = "none"
    /\ UNCHANGED <<phase, game, history, nodes>>
    /\ TrainVarsUnchanged

\* One round of the loop (lines 228-230): the next valid move is played and
\* __topSort_play is called with its result.
TopSortStep ==
    /\ phase = "build"
    /\ call = "none" /\ ~returned
    /\ frames # <<>>
    /\ LET top == frames[Len(frames)]
       IN  /\ top.valid_moves # <<>>
           /\ LET a == Head(top.valid_moves)
              IN  /\ call' = DarkHex_step_res(game, top.node.player, a)
                  /\ game' = DarkHex_step(game, top.node.player, a)
                  /\ history' = Append(history, game)
                  /\ frames' = [frames EXCEPT ![Len(frames)].valid_moves = Tail(@)]
    /\ UNCHANGED <<phase, returned, visited, stack, nodes, nodes_dict>>
    /\ TrainVarsUnchanged

\* The return to the caller with line 231 left out: the move stays played.
TopSortRewind_no_restore ==
    /\ phase = "build"
    /\ returned
    /\ frames # <<>>
    /\ history' = SubSeq(history, 1, Len(history) - 1)
    /\ returned' = FALSE
    /\ UNCHANGED <<phase, game, frames, call, visited, stack, nodes, nodes_dict>>
    /\ TrainVarsUnchanged

\* Line 231: the caller takes the move back after the call has returned.
TopSortRewind ==
    /\ phase = "build"
    /\ returned
    /\ frames # <<>>
    /\ game' = history[Len(history)]
    /\ history' = SubSeq(history, 1, Len(history) - 1)
    /\ returned' = FALSE
    /\ UNCHANGED <<phase, frames, call, visited, stack, nodes, nodes_dict>>
    /\ TrainVarsUnchanged

\* Lines 232-235: after the loop the node is saved and the call returns.
TopSortFinish ==
    /\ phase = "build"
    /\ call = "none" /\ ~returned
    /\ frames # <<>>
    /\ LET top == frames[Len(frames)]
       IN  /\ top.valid_moves = <<>>
           /\ nodes_dict' = insert_node(nodes_dict, top.node)
           /\ stack' = push_node(nodes_dict, stack, top.node)
    /\ frames' = SubSeq(frames, 1, Len(frames) - 1)
    /\ returned' = TRUE
    /\ UNCHANGED <<phase, game, history, call, visited, nodes>>
    /\ TrainVarsUnchanged

\* __init_board_topSorted, line 175, and FSICFR.__init__, line 80: the
\* outermost call has returned, the reversed stack becomes FSICFR.nodes.
InitBoardDone ==
    /\ phase = "build"
    /\ returned
    /\ frames = <<>>
    /\ nodes' = Reverse(stack)
    /\ phase' = "built"
    /\ returned' = FALSE
    /\ UNCHANGED <<game, history, frames, call, visited, stack, nodes_dict>>
    /\ TrainVarsUnchanged

\* FSICFR.__init__ up to the first call of __topSort_play (lines 77-80 and
\* 168-172).
Init ==
    /\ phase = "build"
    /\ game = DarkHex_new
    /\ history = <<>>
    /\ frames = <<>>
    /\ call = "="
    /\ returned = FALSE
    /\ visited = {}
    /\ stack = <<>>
    /\ nodes = <<>>
    /\ nodes_dict = <<>>
    /\ regret = ZeroVec
    /\ num_it = 0
    /\ it = 0
    /\ idx = 0
    /\ sample = <<>>
    /\ gen = NoGenerator

-----------------------------------------------------------------------------
(* FSICFR.train *)

RECURSIVE successor_pairs(_, _)
\* <<a, infoset>> for the actions of the list acts in order, each action
\* with its successors in the order train appends them to children.
successor_pairs(n, acts) ==
    IF acts = <<>> THEN <<>>
    ELSE LET a == Head(acts)
             cs == children_of(n, a)
         IN  [i \in 1..Len(cs) |-> <<a, cs[i]>>] \o successor_pairs(n, Tail(acts))

AllActions == [a \in Cells |-> a]

\* The child's update with strategy[a] applied to both reach sums.
forward_child_both_scaled(dict, key, a, c) ==
    LET node == dict[key]
        strategy == node.strategy
    IN  [dict EXCEPT
           ![c].visits = @ + node.visits,
           ![c].pSum1 = RAdd(@, RMul(strategy[a], node.pSum1)),
           ![c].pSum2 = RAdd(@, RMul(strategy[a], node.pSum2))]

\* Lines 105-109: one child found in the map takes the visits and the reach
\* sums of the node under key.
forward_child(dict, key, a, c) ==
    LET node == dict[key]
        strategy == node.strategy
    IN  [dict EXCEPT
           ![c].visits = @ + node.visits,
           ![c].pSum1 = RAdd(@, IF node.player = C_PLAYER1
                                THEN RMul(strategy[a], node.pSum1) ELSE node.pSum1),
           ![c].pSum2 = RAdd(@, IF node.player = C_PLAYER2
                                THEN RMul(strategy[a], node.pSum2) ELSE node.pSum2)]

RECURSIVE forward_children_stop_at_absent(_, _, _)
\* The loop over the successors given up at the first one the map lacks.
forward_children_stop_at_absent(dict, key, pairs) ==
    IF pairs = <<>> THEN dict
    ELSE LET a == Head(pairs)[1]
             c == Head(pairs)[2]
         IN  IF c \in DOMAIN dict
             THEN forward_children_stop_at_absent(forward_child(dict, key, a, c),
                                                  key, Tail(pairs))
             ELSE dict

RECURSIVE forward_children(_, _, _)
\* Lines 92-109: the loop over the successors of the node under key.
forward_children(dict, key, pairs) ==
    IF pairs = <<>> THEN dict
    ELSE LET a == Head(pairs)[1]
             c == Head(pairs)[2]
         IN  forward_children(
                 IF c \in DOMAIN dict THEN forward_child(dict, key, a, c) ELSE dict,
                 key, Tail(pairs))

\* The forward pass at one node with __add_stone placing its stones on the
\* node's own board (no copy at line 238): the board ends with a stone on
\* every cell that was empty.
forward_node_board_shared(dict, key) ==
    LET d1 == [dict EXCEPT ![key] = getStrategy(@)]
        d2 == forward_children(d1, key, successor_pairs(d1[key], d1[key].pos_actions))
    IN  [d2 EXCEPT ![key].board =
            [a \in Cells |-> IF @[a] = NEUTRAL THEN d1[key].player ELSE @[a]]]

\* Lines 87-110: the forward pass at one node.
forward_node(dict, key) ==
    LET d1 == [dict EXCEPT ![key] = getStrategy(@)]
    IN  forward_children(d1, key, successor_pairs(d1[key], d1[key].pos_actions))

\* Lines 137-140
childUtil(node, child) ==
    IF child.player = node.player THEN child.u ELSE RNeg(child.u)

RECURSIVE backward_children(_, _, _)
\* Lines 122-142: the loop over the successors of the node under key; st
\* holds the map and the regret buffer.
backward_children(st, key, pairs) ==
    IF pairs = <<>> THEN st
    ELSE LET a == Head(pairs)[1]
             c == Head(pairs)[2]
             node == st.dict[key]
             cu == childUtil(node, st.dict[c])
         IN  backward_children(
                 IF c \in DOMAIN st.dict
                 THEN [dict |-> [st.dict EXCEPT ![key].u =
                                    RAdd(@, RMul(node.strategy[a], cu))],
                       regret |-> [st.regret EXCEPT ![a] = RAdd(@, cu)]]
                 ELSE st,
                 key, Tail(pairs))

\* The update without the weight T on the old regretSum[a].
regret_update_unweighted(T, regretSum_a, visits, cfp, regret_a, u) ==
    LET nomin == RAdd(regretSum_a,
                      RMul(RMul(RInt(visits), cfp), RSub(regret_a, u)))
        denom == T + visits
    IN  RDiv(nomin, RInt(denom))

\* Lines 145-147: the new regretSum[a].
regret_update(T, regretSum_a, visits, cfp, regret_a, u) ==
    LET nomin == RAdd(RMul(RInt(T), regretSum_a),
                      RMul(RMul(RInt(visits), cfp), RSub(regret_a, u)))
        denom == T + visits
    IN  RDiv(nomin, RInt(denom))

\* Line 143
cfp_of(node) == IF node.player = C_PLAYER1 THEN node.pSum2 ELSE node.pSum1

\* The update made for every index, not for the legal actions alone
\* (range(num_actions) for node.pos_actions at line 144).
update_regrets_all_cells(node, reg) ==
    [node EXCEPT
       !.regretSum = [a \in DOMAIN node.regretSum |->
           regret_update(node.T, node.regretSum[a], node.visits,
                         cfp_of(node), reg[a], node.u)],
       !.T = node.T + node.visits]

\* Lines 143-148 at a node whose u and regret buffer are computed.
update_regrets(node, reg) ==
    [node EXCEPT
       !.regretSum = [a \in DOMAIN node.regretSum |->
           IF node.board[a] = NEUTRAL
           THEN regret_update(node.T, node.regretSum[a], node.visits,
                              cfp_of(node), reg[a], node.u)
           ELSE node.regretSum[a]],
       !.T = node.T + node.visits]

\* The terminal test that finds no board won.
terminal_utility_never(node) == "none"

\* The terminal utility with the two signs exchanged.
terminal_utility_swapped(node) ==
    LET status == Hex_game_status(node.board, FALSE, "none", 0)
    IN  IF status = node.player THEN RInt(-1)
        ELSE IF status # "=" THEN RInt(1)
        ELSE "none"

\* Lines 117-120: the utility of a node whose board is won, else "none".
terminal_utility(node) ==
    LET status == Hex_game_status(node.board, FALSE, "none", 0)
    IN  IF status = node.player THEN RInt(1)
        ELSE IF status # "=" THEN RInt(-1)
        ELSE "none"

\* The reset without line 152.
reset_reach_partial(node) ==
    [node EXCEPT !.visits = 0, !.pSum1 = RZero]

\* The reset to the values of a new node (lines 28-30).
reset_reach_to_initial(node) ==
    [node EXCEPT !.visits = 1, !.pSum1 = ROne, !.pSum2 = ROne]

\* Lines 150-152
reset_reach(node) ==
    [node EXCEPT !.visits = 0, !.pSum1 = RZero, !.pSum2 = RZero]

\* Lines 113-152: the backward pass at one node; the map and the regret
\* buffer after it.
backward_node(dict, reg, key) ==
    LET d1 == [dict EXCEPT ![key] = getStrategy(@)]
        tu == terminal_utility(d1[key])
        st == IF tu # "none"
              THEN [dict |-> [d1 EXCEPT ![key].u = tu], regret |-> reg]
              ELSE LET s2 == backward_children([dict |-> d1, regret |-> reg], key,
                                 successor_pairs(d1[key], AllActions))
                   IN  [dict |-> [s2.dict EXCEPT ![key] = update_regrets(@, s2.regret)],
                        regret |-> s2.regret]
    IN  [dict |-> [st.dict EXCEPT ![key] = reset_reach(@)], regret |-> st.regret]

BuildVarsUnchanged ==
    UNCHANGED <<game, history, frames, call, returned, visited, stack, gen>>

\* train is called (lines 82-86): the regret buffer is allocated; with no
\* iteration to run the loops at lines 160-162 follow at once.
TrainStart ==
    /\ phase = "built"
    /\ \E n \in 0..MaxIter :
          /\ num_it' = n
          /\ phase' = IF n = 0 THEN "extract" ELSE "forward"
    /\ regret' = ZeroVec
    /\ it' = 0
    /\ idx' = 1
    /\ UNCHANGED <<nodes, nodes_dict, sample>>
    /\ BuildVarsUnchanged

\* The forward loop left after its first round, so that the backward loop
\* starts before the forward loop has covered the list.
ForwardNode_no_barrier ==
    /\ phase = "forward"
    /\ idx <= Len(nodes)
    /\ nodes_dict' = forward_node(nodes_dict, nodes[idx])
    /\ phase' = "backward" /\ idx' = 1
    /\ UNCHANGED <<nodes, regret, num_it, it, sample>>
    /\ BuildVarsUnchanged

\* One round of the loop at line 87.
ForwardNode ==
    /\ phase = "forward"
    /\ idx <= Len(nodes)
    /\ nodes_dict' = forward_node(nodes_dict, nodes[idx])
    /\ IF idx = Len(nodes)
       THEN phase' = "backward" /\ idx' = 1
       ELSE phase' = phase /\ idx' = idx + 1
    /\ UNCHANGED <<nodes, regret, num_it, it, sample>>
    /\ BuildVarsUnchanged

\* One round of the loop at line 112 (self.nodes[::-1]); after its last
\* round the next iteration starts, or the loop at line 160.
BackwardNode ==
    /\ phase = "backward"
    /\ idx <= Len(nodes)
    /\ LET st == backward_node(nodes_dict, regret, nodes[Len(nodes) + 1 - idx])
       IN  /\ nodes_dict' = st.dict
           /\ regret' = st.regret
    /\ IF idx = Len(nodes)
       THEN /\ it' = it + 1
            /\ idx' = 1
            /\ phase' = IF it + 1 = num_it THEN "extract" ELSE "forward"
       ELSE /\ idx' = idx + 1
            /\ UNCHANGED <<it, phase>>
    /\ UNCHANGED <<nodes, num_it, sample>>
    /\ BuildVarsUnchanged

\* Lines 160-162: the average strategy of every non-terminal node is taken.
PrintAverages ==
    /\ phase = "extract"
    /\ nodes_dict' = [k \in DOMAIN nodes_dict |->
                         IF nodes_dict[k].is_terminal THEN nodes_dict[k]
                         ELSE getAverageStrategy(nodes_dict[k])]
    /\ phase' = "done"
    /\ UNCHANGED <<nodes, regret, num_it, it, idx, sample>>
    /\ BuildVarsUnchanged

Next ==
    \/ TopSortEnter
    \/ TopSortStep
    \/ TopSortRewind
    \/ TopSortFinish
    \/ InitBoardDone
    \/ TrainStart
    \/ ForwardNode
    \/ BackwardNode
    \/ PrintAverages

Spec == Init /\ [][Next]_vars

\* FSICFR.__init__ alone: the steps of graph construction.
NextBuild ==
    \/ TopSortEnter
    \/ TopSortStep
    \/ TopSortRewind
    \/ TopSortFinish
    \/ InitBoardDone

\* The constructor runs on while it has a step to take.
SpecBuild == Init /\ [][NextBuild]_vars /\ WF_vars(NextBuild)

-----------------------------------------------------------------------------
(* Unit runs: getStrategy and the backward pass applied to one node whose   *)
(* fields are drawn from bounded sets.                                      *)

UnitRegretSums == {RInt(v) : v \in -MaxRegretSum..MaxRegretSum}
UnitVals == {RInt(v) : v \in -MaxVal..MaxVal}
UnitWeights == 0..MaxWeight

\* The empty board and a board with an occupied cell.
UnitBoards == {EmptyBoard, [EmptyBoard EXCEPT ![num_actions] = C_PLAYER2]}

\* The one node of a unit run.
UnitKey == nodes[1]
UnitNode == nodes_dict[UnitKey]

UnitFrame ==
    /\ game = DarkHex_new
    /\ history = <<>>
    /\ frames = <<>>
    /\ call = "none"
    /\ returned = FALSE
    /\ visited = {}
    /\ stack = <<>>
    /\ num_it = 1
    /\ it = 0
    /\ idx = 1
    /\ gen = NoGenerator

\* A node as constructed, with an arbitrary regretSum.
InitUnitStrategy ==
    /\ phase = "unit_strategy_in"
    /\ \E board \in UnitBoards, player \in Players, rs \in [Cells -> UnitRegretSums] :
          LET n == [Node(board, player, 0) EXCEPT !.regretSum = rs]
          IN  /\ nodes = <<n.infoSet>>
              /\ nodes_dict = (n.infoSet :> n)
              /\ sample = [regretSum |-> rs]
    /\ regret = ZeroVec
    /\ UnitFrame

\* A node as constructed (T = 0, regretSum = 0) that the forward pass has
\* given visits >= 1 and reach sums, and a regret buffer holding d at every
\* index; the node has no successor in the map, so its u stays 0.
InitUnitRegret ==
    /\ phase = "unit_regret_in"
    /\ \E board \in UnitBoards, player \in Players, visits \in UnitWeights \ {0},
          cfp \in UnitWeights, d \in UnitVals :
          LET n == [Node(board, player, 0) EXCEPT
                       !.visits = visits,
                       !.pSum1 = IF player = C_PLAYER1 THEN ROne ELSE RInt(cfp),
                       !.pSum2 = IF player = C_PLAYER1 THEN RInt(cfp) ELSE ROne]
          IN  /\ nodes = <<n.infoSet>>
              /\ nodes_dict = (n.infoSet :> n)
              /\ regret = [a \in Cells |-> d]
              /\ sample = [round |-> 1, T |-> 0, regretSum |-> n.regretSum,
                           visits |-> visits, cfp |-> RInt(cfp), d |-> d]
    /\ UnitFrame

InitUnit == InitUnitStrategy \/ InitUnitRegret

UnitRest == UNCHANGED <<game, history, frames, call, returned, visited, stack,
                        nodes, num_it, it, idx, gen>>

\* getStrategy is called on the node.
UnitGetStrategy ==
    /\ phase = "unit_strategy_in"
    /\ nodes_dict' = [nodes_dict EXCEPT ![UnitKey] = getStrategy(@)]
    /\ phase' = "unit_strategy"
    /\ UNCHANGED <<regret, sample>>
    /\ UnitRest

\* The backward pass comes to the node.
UnitBackward ==
    /\ phase = "unit_regret_in"
    /\ LET st == backward_node(nodes_dict, regret, UnitKey)
       IN  /\ nodes_dict' = st.dict
           /\ regret' = st.regret
    /\ phase' = "unit_regret"
    /\ UNCHANGED sample
    /\ UnitRest

\* The next iteration's forward pass has given the node new visits and reach
\* sums, and the regret buffer holds d again, before the backward pass comes
\* to the node a second time.
UnitSecondRound ==
    /\ phase = "unit_regret"
    /\ sample.round = 1
    /\ \E visits \in UnitWeights, cfp \in UnitWeights, d \in UnitVals :
          LET n == UnitNode
          IN  /\ nodes_dict' = [nodes_dict EXCEPT ![UnitKey] = [n EXCEPT
                       !.visits = visits,
                       !.pSum1 = IF n.player = C_PLAYER1 THEN ROne ELSE RInt(cfp),
                       !.pSum2 = IF n.player = C_PLAYER1 THEN RInt(cfp) ELSE ROne]]
              /\ regret' = [a \in Cells |-> d]
              /\ sample' = [round |-> 2, T |-> n.T, regretSum |-> n.regretSum,
                            visits |-> visits, cfp |-> RInt(cfp), d |-> d]
    /\ phase' = "unit_regret_in"
    /\ UnitRest

\* getAverageStrategy is called on the node: as constructed, after
\* getStrategy, or after a round of the backward pass.
UnitGetAverage ==
    /\ phase \in {"unit_regret_in", "unit_strategy", "unit_regret"}
    /\ nodes_dict' = [nodes_dict EXCEPT ![UnitKey] = getAverageStrategy(@)]
    /\ phase' = "unit_average"
    /\ UNCHANGED <<regret, sample>>
    /\ UnitRest

\* getAverageStrategy is called a second time, with nothing in between.
UnitGetAverageAgain ==
    /\ phase = "unit_average"
    /\ nodes_dict' = [nodes_dict EXCEPT ![UnitKey] = getAverageStrategy(@)]
    /\ phase' = "unit_average_again"
    /\ UNCHANGED <<regret, sample>>
    /\ UnitRest

NextUnit ==
    \/ UnitGetStrategy
    \/ UnitBackward
    \/ UnitSecondRound
    \/ UnitGetAverage
    \/ UnitGetAverageAgain

SpecUnit == InitUnit /\ [][NextUnit]_vars

-----------------------------------------------------------------------------
(* StrategyGenerator (src/darkhex/gui/strategy_generator.py): construction. *)

\* Longest initial_board string and largest dimension a constructor call is
\* given here.
MaxBoardLen == 4
MaxDim == 2

\* The characters of a board string (the cell keys of colors, lines 16-18).
BoardChars == {".", "x", "o"}

BoardStrings == UNION {[1..n -> BoardChars] : n \in 0..MaxBoardLen}

\* is_valid_board that accepts every board.
is_valid_board_any_length(board, rows, cols) == TRUE

\* is_valid_board (lines 722-727)
is_valid_board(board, rows, cols) ==
    IF Len(board) # rows * cols THEN FALSE ELSE TRUE

\* gameBuffer.__init__ with add_history_buffer (lines 466-478): the buffer
\* starts with one snapshot of the generator.
gameBuffer(stratgen_class) ==
    [info_states |-> <<stratgen_class.info_states>>,
     moves_and_boards |-> <<stratgen_class.moves_and_boards>>,
     board |-> <<stratgen_class.board>>,
     move_stack |-> <<stratgen_class.move_stack>>]

\* StrategyGenerator.__init__ (lines 510-534): the object the call leaves,
\* attrs being the attributes assigned so far and raised the exception the
\* call ends with, if any.
StrategyGenerator(initial_board, rows, cols, player, include_isomorphic) ==
    LET head == [attrs |-> {"num_cols", "num_rows", "p", "o", "include_isomorphic"},
                 raised |-> "none",
                 num_cols |-> cols,
                 num_rows |-> rows,
                 p |-> player,
                 o |-> IF player = 0 THEN 1 ELSE 0,
                 include_isomorphic |-> include_isomorphic]
        state == [board |-> initial_board,
                  info_states |-> <<>>,
                  moves_and_boards |-> <<>>,
                  move_stack |-> <<>>]
    IN  IF ~is_valid_board(initial_board, rows, cols)
        THEN [head EXCEPT !.raised = "ValueError"]
        ELSE [head EXCEPT !.attrs = @ \cup {"board", "info_states", "moves_and_boards",
                                            "move_stack", "history_buffer"}]
             @@ state @@ [history_buffer |-> gameBuffer(state)]

\* The arguments of a constructor call.
InitGen ==
    /\ phase = "gen_new"
    /\ \E initial_board \in BoardStrings, rows \in 1..MaxDim, cols \in 1..MaxDim,
          player \in {0, 1}, include_isomorphic \in BOOLEAN :
          sample = [initial_board |-> initial_board, num_rows |-> rows,
                    num_cols |-> cols, player |-> player,
                    include_isomorphic |-> include_isomorphic]
    /\ gen = NoGenerator
    /\ nodes = <<>>
    /\ nodes_dict = <<>>
    /\ regret = ZeroVec
    /\ game = DarkHex_new
    /\ history = <<>>
    /\ frames = <<>>
    /\ call = "none"
    /\ returned = FALSE
    /\ visited = {}
    /\ stack = <<>>
    /\ num_it = 0
    /\ it = 0
    /\ idx = 0

GenRest == UNCHANGED <<game, history, frames, call, returned, visited, stack,
                       nodes, nodes_dict, regret, num_it, it, idx, sample>>

\* StrategyGenerator(...) is called with the arguments.
NewStrategyGenerator ==
    /\ phase = "gen_new"
    /\ gen' = StrategyGenerator(sample.initial_board, sample.num_rows,
                                sample.num_cols, sample.player,
                                sample.include_isomorphic)
    /\ phase' = IF gen'.raised = "none" THEN "gen_ready" ELSE "gen_failed"
    /\ GenRest

NextGen == NewStrategyGenerator

SpecGen == InitGen /\ [][NextGen]_vars

-----------------------------------------------------------------------------
(* StrategyGenerator: iterate_board, and rewind and restart of its history  *)
(* buffer.  The helpers of the package utils (cellState, num_action,        *)
(* updated_board, isomorphic_single) are not part of the sources at hand;   *)
(* the operators standing for them follow their use in the generator: a     *)
(* board is a string of cell letters, num_action gives the 0-based cell of  *)
(* a coordinate, updated_board gives the board with one more stone (a       *)
(* falsy value for a cell that is not empty), and isomorphic_single gives   *)
(* the board and the moves turned by 180 degrees.                           *)

\* Most operations (iterate_board, rewind, restart) in a run of the generator.
MaxOps == 3

\* cellState
kEmpty == "."
kBlack == "x"
kWhite == "o"
kBlackWin == "X"
kWhiteWin == "O"
black_pieces == {kBlack, kBlackWin}
white_pieces == {kWhite, kWhiteWin}

\* The result False of num_action.
NoAction == -1

\* Python truth of a value num_action returns: False and 0 are falsy.
Truthy(a) == a # NoAction /\ a # 0

\* Tokens of given_input after strip and split (line 628): "=", a
\* coordinate, a number, or text that is none of these.
EqToken == [k |-> "eq"]
JunkToken == [k |-> "junk"]
CellToken(c) == [k |-> "cell", c |-> c]
NumToken(v) == [k |-> "num", v |-> v]

\* num_action: the cell of a coordinate token, False for any other token.
num_action(tok, cols) == IF tok.k = "cell" THEN tok.c ELSE NoAction

\* The board as the rule engine's Wins reads it.
PiecesOf(board) ==
    [i \in 1..Len(board) |->
        IF board[i] \in black_pieces THEN C_PLAYER1
        ELSE IF board[i] \in white_pieces THEN C_PLAYER2
        ELSE NEUTRAL]

\* updated_board: the board with a stone of color on the 0-based cell, the
\* stone marked as winning when it completes that color's connection; the
\* empty sequence stands for the falsy result given for a cell that is out
\* of the board or not empty.
updated_board(board, cell, color, rows, cols) ==
    IF cell < 0 \/ cell >= Len(board) THEN <<>>
    ELSE IF board[cell + 1] # kEmpty THEN <<>>
    ELSE LET placed == [board EXCEPT ![cell + 1] = color]
             owner == IF color = kBlack THEN C_PLAYER1 ELSE C_PLAYER2
         IN  IF rows = num_rows /\ cols = num_cols /\ Wins(PiecesOf(placed), owner)
             THEN [placed EXCEPT ![cell + 1] =
                      IF color = kBlack THEN kBlackWin ELSE kWhiteWin]
             ELSE placed

\* isomorphic_single: the board read backwards (turned by 180 degrees) and
\* each move on its turned cell with its probability.
isomorphic_single(board, actions, probs) ==
    [iso_state |-> [i \in 1..Len(board) |-> board[Len(board) + 1 - i]],
     iso_moves_probs |-> [i \in 1..Len(actions) |->
                             <<Len(board) - 1 - actions[i], probs[i]>>]]

RECURSIVE pair_moves(_, _, _, _)
\* _get_moves, lines 644-650: the loop over (coordinate, number) pairs from
\* token i on; acc holds moves and probs so far.
pair_moves(action_probs, cols, i, acc) ==
    IF i > Len(action_probs) THEN acc
    ELSE LET a == num_action(action_probs[i], cols)
         IN  IF Truthy(a)
             THEN pair_moves(action_probs, cols, i + 2,
                      [success |-> TRUE,
                       moves |-> Append(acc.moves, a),
                       probs |-> Append(acc.probs, action_probs[i + 1].v)])
             ELSE [success |-> FALSE, moves |-> <<>>, probs |-> <<>>]

\* StrategyGenerator._get_moves (lines 625-654)
get_moves(given_input, cols) ==
    LET fail == [success |-> FALSE, moves |-> <<>>, probs |-> <<>>]
        action_probs == given_input
    IN  IF Len(given_input) < 1 THEN fail
        ELSE IF Len(action_probs) = 1
        THEN LET a == num_action(action_probs[1], cols)
             IN  IF Truthy(a)
                 THEN [success |-> TRUE, moves |-> <<a>>, probs |-> <<ROne>>]
                 ELSE fail
        ELSE IF action_probs[1].k = "eq"
        THEN LET moves == [i \in 1..(Len(action_probs) - 1) |->
                              num_action(action_probs[i + 1], cols)]
             IN  IF \E i \in DOMAIN moves : ~Truthy(moves[i]) THEN fail
                 ELSE [success |-> TRUE, moves |-> moves,
                       probs |-> [i \in DOMAIN moves |-> Rat(1, Len(moves))]]
        ELSE pair_moves(action_probs, cols, 1,
                        [success |-> TRUE, moves |-> <<>>, probs |-> <<>>])

\* dict with key set to value (a new key, or the value replaced).
SetItem(dict, key, value) ==
    [k \in DOMAIN dict \cup {key} |-> IF k = key THEN value ELSE dict[k]]

RECURSIVE moves_boards(_, _, _)
\* is_valid_moves, lines 607-619: the loop over the moves left; acc holds
\* moves_and_boards so far and ok = FALSE once a move is refused.  The
\* keys f"{move}{player}" are the pairs <<move, player>>.
moves_boards(g, moves, acc) ==
    IF moves = <<>> THEN acc
    ELSE LET move == Head(moves)
             o_color == IF g.p = 0 THEN kWhite ELSE kBlack
             p_color == IF g.p = 0 THEN kBlack ELSE kWhite
             \* lines 616-619, given the two boards of lines 610-615
             store(new_board, new_board_2) ==
                 IF new_board = <<>>
                 THEN [acc EXCEPT !.ok = FALSE]
                 ELSE moves_boards(g, Tail(moves),
                          [ok |-> TRUE,
                           dict |-> SetItem(SetItem(acc.dict, <<move, g.o>>, new_board),
                                            <<move, g.p>>, new_board_2)])
         IN  store(updated_board(g.board, move, o_color, g.num_rows, g.num_cols),
                   updated_board(g.board, move, p_color, g.num_rows, g.num_cols))

\* StrategyGenerator.is_valid_moves (lines 599-623): the generator after the
\* call with the call's result; log is the text before the first colon.
is_valid_moves(g, given_input) ==
    LET refused(g2, log) ==
            [gen |-> g2, success |-> FALSE, moves |-> <<>>, probs |-> <<>>, log |-> log]
        \* lines 606-623, given the result of _get_moves and of the loop
        checked(got, mb) ==
            LET g2 == [g EXCEPT !.moves_and_boards = mb.dict]
            IN  IF ~mb.ok THEN refused(g2, "Invalid move")
                ELSE IF RSum(got.probs) # ROne
                THEN refused(g2, "Values don't add up to one")
                ELSE [gen |-> g2, success |-> TRUE, moves |-> got.moves,
                      probs |-> got.probs, log |-> "Values processed successfully."]
        \* lines 603-604, given the result of _get_moves
        parsed(got) ==
            IF ~got.success THEN refused(g, "Invalid move")
            ELSE checked(got, moves_boards(g, got.moves, [ok |-> TRUE, dict |-> <<>>]))
    IN  parsed(get_moves(given_input, g.num_cols))

\* StrategyGenerator._action_probs (lines 655-663): zip(actions, probs)
action_probs_of(actions, probs) == [i \in 1..Len(actions) |-> <<actions[i], probs[i]>>]

\* The index in ls of the entry for move (d[move] at lines 556-568), 0 when
\* ls has none.
IndexOfMove(ls, move) ==
    IF \E i \in DOMAIN ls : ls[i][1] = move
    THEN CHOOSE i \in DOMAIN ls : ls[i][1] = move /\ \A j \in 1..(i - 1) : ls[j][1] # move
    ELSE 0

RECURSIVE halve_into(_, _)
\* Lines 557-562 and 563-568: each (move, prob) of pairs enters ls with half
\* its probability, added to the entry ls has for the move if it has one.
halve_into(ls, pairs) ==
    IF pairs = <<>> THEN ls
    ELSE LET move == Head(pairs)[1]
             half == RMul(Head(pairs)[2], Rat(1, 2))
             at == IndexOfMove(ls, move)
         IN  halve_into(IF at = 0 THEN Append(ls, <<move, half>>)
                        ELSE [ls EXCEPT ![at] = <<move, RAdd(ls[at][2], half)>>],
                        Tail(pairs))

\* Lines 548-569: the strategy given for the board is recorded, and with
\* include_isomorphic the turned strategy for the turned board, merged half
\* and half with a strategy the turned board already has.
record_strategy(g, actions, probs) ==
    LET info1 == SetItem(g.info_states, g.board, action_probs_of(actions, probs))
        iso == isomorphic_single(g.board, actions, probs)
    IN  IF ~g.include_isomorphic THEN info1
        ELSE IF iso.iso_state \notin DOMAIN info1
        THEN SetItem(info1, iso.iso_state, iso.iso_moves_probs)
        ELSE SetItem(info1, iso.iso_state,
                     halve_into(halve_into(<<>>, iso.iso_moves_probs),
                                info1[iso.iso_state]))

\* The number of cells of the board that hold one of the pieces.
CountPieces(board, pieces) == Cardinality({i \in 1..Len(board) : board[i] \in pieces})

\* StrategyGenerator._is_collusion_possible (lines 665-685)
is_collusion_possible(g) ==
    IF g.p = 1
    THEN CountPieces(g.board, black_pieces) <= CountPieces(g.board, white_pieces)
    ELSE CountPieces(g.board, white_pieces) < CountPieces(g.board, black_pieces)

\* StrategyGenerator._is_terminal (lines 687-719)
is_terminal(g, board_state) ==
    LET empty_cells == CountPieces(board_state, {kEmpty})
    IN  IF CountPieces(board_state, {kBlackWin}) + CountPieces(board_state, {kWhiteWin}) > 0
        THEN TRUE
        ELSE IF g.p = 0
        THEN CountPieces(board_state, white_pieces) + empty_cells
                = CountPieces(board_state, black_pieces)
        ELSE CountPieces(board_state, black_pieces) + empty_cells
                = CountPieces(board_state, white_pieces) + 1

\* Lines 575-578 and 579-583: new_board goes on the stack unless it is
\* terminal or has a strategy.
push_board(g, info, stk, new_board) ==
    IF is_terminal(g, new_board) THEN stk
    ELSE IF new_board \notin DOMAIN info THEN Append(stk, new_board)
    ELSE stk

RECURSIVE push_moves(_, _, _, _, _)
\* Lines 572-583: the loop over the actions left.
push_moves(g, info, collusion_possible, actions, stk) ==
    IF actions = <<>> THEN stk
    ELSE LET action == Head(actions)
             s1 == IF collusion_possible
                   THEN push_board(g, info, stk, g.moves_and_boards[<<action, g.o>>])
                   ELSE stk
             s2 == push_board(g, info, s1, g.moves_and_boards[<<action, g.p>>])
         IN  push_moves(g, info, collusion_possible, Tail(actions), s2)

\* gameBuffer.add_history_buffer (lines 474-478)
add_history_buffer(buffer, stratgen_class) ==
    [info_states |-> Append(buffer.info_states, stratgen_class.info_states),
     moves_and_boards |-> Append(buffer.moves_and_boards, stratgen_class.moves_and_boards),
     board |-> Append(buffer.board, stratgen_class.board),
     move_stack |-> Append(buffer.move_stack, stratgen_class.move_stack)]

\* StrategyGenerator.iterate_board (lines 536-597): the generator after the
\* call and the tuple the call returns.
iterate_board(g, given_input) ==
    LET \* lines 584-597, given info_states and move_stack after the loop
        pushed(g1, info, stk) ==
            LET g2 == [g1 EXCEPT !.info_states = info, !.move_stack = stk]
                g3 == [g2 EXCEPT !.board = stk[Len(stk)],
                                 !.move_stack = SubSeq(stk, 1, Len(stk) - 1)]
            IN  IF Len(stk) = 0
                THEN [gen |-> [g2 EXCEPT !.history_buffer = add_history_buffer(@, g2)],
                      ret |-> [success |-> TRUE,
                               log |-> "Game has ended. No more moves to make.",
                               board |-> g2.board, end_game |-> TRUE]]
                ELSE [gen |-> [g3 EXCEPT !.history_buffer = add_history_buffer(@, g3)],
                      ret |-> [success |-> TRUE, log |-> "Move performed succeded.",
                               board |-> g3.board, end_game |-> FALSE]]
        \* lines 571-583, given info_states after lines 548-569
        recorded(valid, info) ==
            pushed(valid.gen, info,
                   push_moves(valid.gen, info, is_collusion_possible(valid.gen),
                              valid.moves, valid.gen.move_stack))
        \* lines 543-544 and 548-569, given the result of is_valid_moves
        validated(valid) ==
            IF ~valid.success
            THEN [gen |-> valid.gen,
                  ret |-> [success |-> FALSE, log |-> valid.log,
                           board |-> valid.gen.board, end_game |-> FALSE]]
            ELSE recorded(valid, record_strategy(valid.gen, valid.moves, valid.probs))
    IN  validated(is_valid_moves(g, given_input))

\* The last element of a history list (self.x[-1]).
LastOf(s) == s[Len(s)]
ButLast(s) == SubSeq(s, 1, Len(s) - 1)

\* rewind with the assignment of line 492 left out: move_stack is popped from
\* the history but not given back to the generator.
rewind_keeps_move_stack(g) ==
    LET b == g.history_buffer
        popped == [info_states |-> ButLast(b.info_states),
                   moves_and_boards |-> ButLast(b.moves_and_boards),
                   board |-> ButLast(b.board),
                   move_stack |-> ButLast(b.move_stack)]
    IN  IF Len(b.info_states) > 1
        THEN [gen |-> [g EXCEPT !.history_buffer = popped,
                                !.info_states = LastOf(popped.info_states),
                                !.moves_and_boards = LastOf(popped.moves_and_boards),
                                !.board = LastOf(popped.board)],
              ret |-> [log |-> "Rewinded to the previous state.\n"]]
        ELSE [gen |-> g, ret |-> [log |-> "Cannot rewind anymore.\n"]]

\* gameBuffer.rewind (lines 480-493): the generator after the call and the
\* text the call returns.
rewind(g) ==
    LET b == g.history_buffer
        popped == [info_states |-> ButLast(b.info_states),
                   moves_and_boards |-> ButLast(b.moves_and_boards),
                   board |-> ButLast(b.board),
                   move_stack |-> ButLast(b.move_stack)]
    IN  IF Len(b.info_states) > 1
        THEN [gen |-> [g EXCEPT !.history_buffer = popped,
                                !.info_states = LastOf(popped.info_states),
                                !.moves_and_boards = LastOf(popped.moves_and_boards),
                                !.board = LastOf(popped.board),
                                !.move_stack = LastOf(popped.move_stack)],
              ret |-> [log |-> "Rewinded to the previous state.\n"]]
        ELSE [gen |-> g, ret |-> [log |-> "Cannot rewind anymore.\n"]]

\* restart with the slice of line 499 left out: the list of boards keeps all
\* its snapshots.
restart_keeps_boards(g) ==
    LET b == g.history_buffer
        first == [info_states |-> SubSeq(b.info_states, 1, 1),
                  moves_and_boards |-> SubSeq(b.moves_and_boards, 1, 1),
                  board |-> b.board,
                  move_stack |-> SubSeq(b.move_stack, 1, 1)]
    IN  [gen |-> [g EXCEPT !.history_buffer = first,
                           !.info_states = first.info_states[1],
                           !.moves_and_boards = first.moves_and_boards[1],
                           !.board = first.board[1],
                           !.move_stack = first.move_stack[1]],
         ret |-> [log |-> "Restarted the game.\n"]]

\* gameBuffer.restart (lines 495-506)
restart(g) ==
    LET b == g.history_buffer
        first == [info_states |-> SubSeq(b.info_states, 1, 1),
                  moves_and_boards |-> SubSeq(b.moves_and_boards, 1, 1),
                  board |-> SubSeq(b.board, 1, 1),
                  move_stack |-> SubSeq(b.move_stack, 1, 1)]
    IN  [gen |-> [g EXCEPT !.history_buffer = first,
                           !.info_states = first.info_states[1],
                           !.moves_and_boards = first.moves_and_boards[1],
                           !.board = first.board[1],
                           !.move_stack = first.move_stack[1]],
         ret |-> [log |-> "Restarted the game.\n"]]

\* The cells a user names here: every cell but cell 0, whose number is falsy
\* at the tests of lines 631 and 646.
PlayCells == 1..(num_actions - 1)

\* The probabilities a user writes here.
PlayProbs == {Rat(1, 4), Rat(3, 4)}

\* The inputs given to iterate_board: nothing, text that is no coordinate,
\* one coordinate, "=" with two coordinates, and one or two coordinates each
\* with its probability.
PlayInputs ==
    LET two == {cs \in PlayCells \X PlayCells : cs[1] # cs[2]}
    IN  {<<>>, <<JunkToken>>}
        \cup {<<CellToken(c)>> : c \in PlayCells}
        \cup {<<EqToken, CellToken(cs[1]), CellToken(cs[2])>> : cs \in two}
        \cup {<<CellToken(c), NumToken(v)>> : c \in PlayCells, v \in PlayProbs}
        \cup {<<CellToken(cs[1]), NumToken(v1), CellToken(cs[2]), NumToken(v2)>> :
                  cs \in two, v1 \in PlayProbs, v2 \in PlayProbs}

\* A generator as constructed on the empty board of the script's dimensions.
InitPlay ==
    /\ phase = "play"
    /\ \E player \in {0, 1}, include_isomorphic \in BOOLEAN :
          gen = StrategyGenerator([i \in Cells |-> kEmpty], num_rows, num_cols,
                                  player, include_isomorphic)
    /\ sample = [ops |-> 0, op |-> "new", given_input |-> <<>>, ret |-> [log |-> ""]]
    /\ nodes = <<>>
    /\ nodes_dict = <<>>
    /\ regret = ZeroVec
    /\ game = DarkHex_new
    /\ history = <<>>
    /\ frames = <<>>
    /\ call = "none"
    /\ returned = FALSE
    /\ visited = {}
    /\ stack = <<>>
    /\ num_it = 0
    /\ it = 0
    /\ idx = 0

PlayRest == UNCHANGED <<phase, game, history, frames, call, returned, visited, stack,
                        nodes, nodes_dict, regret, num_it, it, idx>>

\* iterate_board is called with an input.
IterateBoard ==
    /\ phase = "play" /\ sample.ops < MaxOps
    /\ \E given_input \in PlayInputs :
          LET r == iterate_board(gen, given_input)
          IN  /\ gen' = r.gen
              /\ sample' = [ops |-> sample.ops + 1, op |-> "iterate_board",
                            given_input |-> given_input, ret |-> r.ret]
    /\ PlayRest

\* history_buffer.rewind is called (StrategyGeneratorGUI.rewind).
Rewind ==
    /\ phase = "play" /\ sample.ops < MaxOps
    /\ LET r == rewind(gen)
       IN  /\ gen' = r.gen
           /\ sample' = [ops |-> sample.ops + 1, op |-> "rewind",
                         given_input |-> <<>>, ret |-> r.ret]
    /\ PlayRest

\* history_buffer.restart is called (StrategyGeneratorGUI.restart).
Restart ==
    /\ phase = "play" /\ sample.ops < MaxOps
    /\ LET r == restart(gen)
       IN  /\ gen' = r.gen
           /\ sample' = [ops |-> sample.ops + 1, op |-> "restart",
                         given_input |-> <<>>, ret |-> r.ret]
    /\ PlayRest

NextPlay ==
    \/ IterateBoard
    \/ Rewind
    \/ Restart

SpecPlay == InitPlay /\ [][NextPlay]_vars

-----------------------------------------------------------------------------
(* Properties *)

Keys == DOMAIN nodes_dict

\* The position of a key in FSICFR.nodes.
Position(k) == CHOOSE i \in 1..Len(nodes) : nodes[i] = k

\* The successors of the node under k that train looks up for its legal
\* actions and finds in the map.
SuccessorsInMap(k) ==
    LET n == nodes_dict[k]
        derived == UNION {{children_of(n, a)[i] : i \in 1..Len(children_of(n, a))} :
                             a \in {b \in Cells : n.board[b] = NEUTRAL}}
    IN  derived \cap Keys

Stones(board) == Len(board) - Count(board, NEUTRAL)

\* C1: in FSICFR.nodes every node stands strictly before each of its
\* action-derived successors that is present in the map.
C1_ParentBeforeChildren ==
    phase = "built" =>
        \A k \in Keys : \A c \in SuccessorsInMap(k) : Position(k) < Position(c)

\* The legality check applied to a node's own player, board and h.
OwnLegal(k) == is_board_legal(k[2], reverse_player(k[1]), k[1], k[3])

\* The legality check applied, in engine state g, to the board and hidden
\* count of the player opposite to the player of key k.
AheadLegal(g, k) ==
    LET other == reverse_player(k[1])
    IN  is_board_legal(g.BOARDS[other], k[1], other, totalHidden_for_player(g, other))

\* C2 as claimed: every key of the map passes the legality check for its own
\* player, board and h.
C2_EveryKeyLegal == \A k \in Keys : OwnLegal(k)

\* C2 as amended: a node enters the map only if its own player, board and h
\* pass the legality check, or if the one-step lookahead accepts the other
\* player's board in the engine state the node is made from.
C2_InsertedLegalOrLookahead ==
    [][phase = "build" =>
          \A k \in DOMAIN nodes_dict' \ DOMAIN nodes_dict :
              OwnLegal(k) \/ AheadLegal(game, k)]_vars

\* C2 witness: the map holds a terminal node that its own legality check
\* rejects, next to a node that passes it.
C2_Witness ==
    /\ phase = "built"
    /\ \E k \in Keys : ~OwnLegal(k) /\ nodes_dict[k].is_terminal
    /\ \E k \in Keys : OwnLegal(k)

RECURSIVE ReachableVia(_, _)
\* The keys reachable through SuccessorsInMap from the keys of seen, given
\* that those of seen outside frontier have their successors in seen.
ReachableVia(seen, frontier) ==
    LET more == UNION {SuccessorsInMap(k) : k \in frontier} \ seen
    IN  IF more = {} THEN seen ELSE ReachableVia(seen \cup more, more)

\* The keys reachable from the set s through SuccessorsInMap, s included.
ReachableFrom(s) == ReachableVia(s, s)

\* C3: every successor train derives has exactly one more stone than its
\* parent, and no node of the map is reachable from itself.
C3_Acyclic ==
    \A k \in Keys :
        /\ \A a \in Cells :
              \A i \in 1..Len(children_of(nodes_dict[k], a)) :
                  Stones(children_of(nodes_dict[k], a)[i][2]) = Stones(k[2]) + 1
        /\ k \notin ReachableFrom(SuccessorsInMap(k))

\* C3 witness: the map holds a node with a successor that has a successor.
C3_Witness ==
    /\ phase = "built"
    /\ \E k \in Keys : \E c \in SuccessorsInMap(k) : SuccessorsInMap(c) # {}

\* C4: after getStrategy every strategy[a] is >= 0 and the strategy sums to 1.
C4_StrategyIsDistribution ==
    phase = "unit_strategy" =>
        /\ \A a \in Cells : RGeq0(UnitNode.strategy[a])
        /\ RSum(UnitNode.strategy) = ROne

\* C4 witness: getStrategy has run on a node with positive and negative regrets.
C4_Witness ==
    /\ phase = "unit_strategy"
    /\ \E a, b \in Cells : RPos(sample.regretSum[a]) /\ ~RGeq0(sample.regretSum[b])
    /\ \E a \in Cells : RPos(UnitNode.strategy[a]) /\ UnitNode.strategy[a] # ROne

\* C5: when no regretSum[a] is positive, getStrategy gives 1/num_actions to
\* every index 1..num_actions, occupied cells included.
C5_UniformFallback ==
    (phase = "unit_strategy" /\ \A a \in Cells : RLeq0(sample.regretSum[a])) =>
        \A a \in Cells : UnitNode.strategy[a] = <<1, num_actions>>

\* C5 witness: the fallback has been taken on a board with an occupied cell.
C5_Witness ==
    /\ phase = "unit_strategy"
    /\ \A a \in Cells : RLeq0(sample.regretSum[a])
    /\ \E a \in Cells : ~RGeq0(sample.regretSum[a])
    /\ \E a \in Cells : UnitNode.board[a] # NEUTRAL
                          /\ UnitNode.strategy[a] = <<1, num_actions>>


\* C6: the backward pass gives every legal action a the weighted mean
\* regretSum[a] = (T*regretSum[a] + visits*cfp*(regret[a]-u)) / (T+visits)
\* with cfp the reach sum of the other player, and then T = T + visits; from
\* T = 0, visits = 2, cfp = 1, regret-u = 3 it gives 3, and from there
\* visits = 2, cfp = 1, regret-u = 1 gives 2 with T = 4.
C6_WeightedMean ==
    phase = "unit_regret" =>
        /\ UnitNode.T = sample.T + sample.visits
        /\ \A a \in Cells : UnitNode.board[a] = NEUTRAL =>
              /\ RMul(UnitNode.regretSum[a], RInt(sample.T + sample.visits))
                    = RAdd(RMul(RInt(sample.T), sample.regretSum[a]),
                           RMul(RInt(sample.visits), RMul(sample.cfp, sample.d)))
              /\ (sample.T = 0 /\ sample.visits = 2 /\ sample.cfp = RInt(1)
                     /\ sample.d = RInt(3))
                    => (UnitNode.regretSum[a] = RInt(3) /\ UnitNode.T = 2)
              /\ (sample.T = 2 /\ sample.regretSum[a] = RInt(3) /\ sample.visits = 2
                     /\ sample.cfp = RInt(1) /\ sample.d = RInt(1))
                    => (UnitNode.regretSum[a] = RInt(2) /\ UnitNode.T = 4)

\* C6 witness: the second update of the example has been made.
C6_Witness ==
    /\ phase = "unit_regret"
    /\ sample.round = 2 /\ sample.T = 2 /\ sample.regretSum[1] = RInt(3)
    /\ sample.visits = 2 /\ sample.cfp = RInt(1) /\ sample.d = RInt(1)
    /\ UnitNode.regretSum[1] = RInt(2) /\ UnitNode.T = 4

\* C7: after one or more iterations every terminal node has u = +1 if its
\* player has won on its board, -1 if the other player has, 0 otherwise.
C7_TerminalUtility ==
    it >= 1 =>
        \A k \in Keys : nodes_dict[k].is_terminal =>
            LET n == nodes_dict[k]
            IN  /\ n.u \in {RInt(-1), RZero, RInt(1)}
                /\ n.u = IF Wins(n.board, n.player) THEN RInt(1)
                         ELSE IF Wins(n.board, reverse_player(n.player)) THEN RInt(-1)
                         ELSE RZero

\* C7 witness: after an iteration the map holds a terminal node with u = 1.
C7_Witness ==
    /\ it >= 1
    /\ \E k \in Keys : nodes_dict[k].is_terminal /\ nodes_dict[k].u = RInt(1)

\* An iteration of train has just ended.
IterationEnd ==
    /\ it >= 1
    /\ (phase = "forward" /\ idx = 1) \/ phase = "extract"

\* C8 as claimed: at the end of every iteration u is zero on every node.
C8_UtilityZeroedEachIteration ==
    IterationEnd => \A k \in Keys : nodes_dict[k].u = RZero

\* C9: at the end of every iteration every node has visits = 0, pSum1 = 0
\* and pSum2 = 0.
C9_ReachReset ==
    IterationEnd =>
        \A k \in Keys : /\ nodes_dict[k].visits = 0
                        /\ nodes_dict[k].pSum1 = RZero
                        /\ nodes_dict[k].pSum2 = RZero

\* C9 witness: an iteration has ended that updated a non-terminal node, with
\* a terminal node in the map.
C9_Witness ==
    /\ IterationEnd
    /\ \E k \in Keys : ~nodes_dict[k].is_terminal /\ nodes_dict[k].T > 0
    /\ \E k \in Keys : nodes_dict[k].is_terminal

\* The map at the start of the current iteration as far as reach goes: the
\* nodes as constructed in the first iteration, zero visits and reach sums
\* in a later one.
IterationStartDict ==
    [k \in Keys |->
        IF it = 0
        THEN [Node(k[2], k[1], k[3]) EXCEPT !.is_terminal = nodes_dict[k].is_terminal]
        ELSE reset_reach(nodes_dict[k])]
    @@ <<>>

\* The end of part j of the range lo..hi cut into parts of width w.
PartEnd(lo, hi, w, j) == IF lo + j * w - 1 < hi THEN lo + j * w - 1 ELSE hi

RECURSIVE ForwardRange(_, _, _)
\* Rounds lo..hi of the forward loop (line 87).  The range is taken in eight
\* parts, one after the other, each part's map made a value before the next
\* part reads it.
ForwardRange(dict, lo, hi) ==
    IF lo > hi THEN dict
    ELSE IF lo = hi THEN forward_node(dict, nodes[lo])
    ELSE LET w == (hi - lo) \div 8 + 1
             d1 == ForwardRange(dict, lo, PartEnd(lo, hi, w, 1))
             d2 == ForwardRange(d1, lo + w, PartEnd(lo, hi, w, 2))
             d3 == ForwardRange(d2, lo + 2 * w, PartEnd(lo, hi, w, 3))
             d4 == ForwardRange(d3, lo + 3 * w, PartEnd(lo, hi, w, 4))
             d5 == ForwardRange(d4, lo + 4 * w, PartEnd(lo, hi, w, 5))
             d6 == ForwardRange(d5, lo + 5 * w, PartEnd(lo, hi, w, 6))
             d7 == ForwardRange(d6, lo + 6 * w, PartEnd(lo, hi, w, 7))
             d8 == ForwardRange(d7, lo + 7 * w, hi)
         IN  IF <<d1 = d1, d2 = d2, d3 = d3, d4 = d4, d5 = d5, d6 = d6, d7 = d7>>
                  = <<TRUE, TRUE, TRUE, TRUE, TRUE, TRUE, TRUE>>
             THEN d8 ELSE d7

RECURSIVE BackwardRange(_, _, _)
\* Rounds lo..hi of the backward loop (line 112), taken in eight parts in the
\* same way; st holds the map and the regret buffer.
BackwardRange(st, lo, hi) ==
    IF lo > hi THEN st
    ELSE IF lo = hi
         THEN backward_node(st.dict, st.regret, nodes[Len(nodes) + 1 - lo])
    ELSE LET w == (hi - lo) \div 8 + 1
             s1 == BackwardRange(st, lo, PartEnd(lo, hi, w, 1))
             s2 == BackwardRange(s1, lo + w, PartEnd(lo, hi, w, 2))
             s3 == BackwardRange(s2, lo + 2 * w, PartEnd(lo, hi, w, 3))
             s4 == BackwardRange(s3, lo + 3 * w, PartEnd(lo, hi, w, 4))
             s5 == BackwardRange(s4, lo + 4 * w, PartEnd(lo, hi, w, 5))
             s6 == BackwardRange(s5, lo + 5 * w, PartEnd(lo, hi, w, 6))
             s7 == BackwardRange(s6, lo + 6 * w, PartEnd(lo, hi, w, 7))
             s8 == BackwardRange(s7, lo + 7 * w, hi)
         IN  IF <<s1 = s1, s2 = s2, s3 = s3, s4 = s4, s5 = s5, s6 = s6, s7 = s7>>
                  = <<TRUE, TRUE, TRUE, TRUE, TRUE, TRUE, TRUE>>
             THEN s8 ELSE s7

\* The forward loop from position i of FSICFR.nodes to its end.
ForwardFrom(dict, i) == ForwardRange(dict, i, Len(nodes))

\* C10: at every backward step of an iteration the forward pass of that
\* iteration is complete: each node the backward pass has yet to update holds
\* the visits and reach sums of the whole forward loop.
C10_ForwardBeforeBackward ==
    phase = "backward" =>
        LET full == ForwardFrom(IterationStartDict, 1)
        IN  \A j \in 1..(Len(nodes) + 1 - idx) :
               LET n == nodes_dict[nodes[j]]
               IN  /\ n.visits = full[nodes[j]].visits
                   /\ n.pSum1 = full[nodes[j]].pSum1
                   /\ n.pSum2 = full[nodes[j]].pSum2

\* C10 witness: the backward pass of the first iteration is about to update a
\* node that holds visits of a parent.
C10_Witness ==
    /\ phase = "backward" /\ it = 0
    /\ idx <= Len(nodes)
    /\ nodes_dict[nodes[Len(nodes) + 1 - idx]].visits > 1
    /\ ~nodes_dict[nodes[Len(nodes) + 1 - idx]].is_terminal

\* Non-negative entries that sum to 1.
IsDistribution(v) ==
    /\ \A a \in DOMAIN v : v[a][2] > 0 /\ RGeq0(v[a])
    /\ RSum(v) = ROne

\* C11: in every state of construction and training (any number of
\* iterations, zero included) getAverageStrategy, called on a non-terminal
\* node, returns a distribution: each entry times the total of strategySum is
\* the entry of strategySum, or each entry is 1/numActions when that total
\* is zero.
C11_AverageStrategyIsDistribution ==
    \A k \in Keys :
        ~nodes_dict[k].is_terminal =>
            LET n == nodes_dict[k]
                total == RSum(n.strategySum)
                avg == getAverageStrategy(n).strategySum
            IN  /\ IsDistribution(avg)
                /\ Len(avg) = n.num_actions
                /\ \A a \in DOMAIN avg :
                      IF total = RZero THEN avg[a] = Rat(1, n.num_actions)
                      ELSE RMul(avg[a], total) = n.strategySum[a]

\* C11 witness: train has returned after at least one iteration and has
\* normalized the strategySum of a node that training gave a positive total,
\* and the map holds a terminal node.
C11_Witness ==
    /\ phase = "done" /\ num_it >= 1
    /\ \E k \in Keys : /\ ~nodes_dict[k].is_terminal
                       /\ nodes_dict[k].T > 0
                       /\ RSum(nodes_dict[k].strategySum) = ROne
    /\ \E k \in Keys : nodes_dict[k].is_terminal

\* FSICFR(num_rows, num_cols).nodes for the 2x2 board, key by key in list
\* order, as obtained by carrying out __topSort_play by hand.
ExpectedNodes ==
    <<
       <<"B", <<".", ".", ".", ".">>, 0>>, <<"W", <<".", ".", ".", "B">>, 0>>,
       <<"B", <<".", ".", "W", "B">>, 0>>, <<"B", <<".", "W", ".", "B">>, 0>>,
       <<"B", <<".", ".", ".", "B">>, 1>>, <<"B", <<"W", ".", ".", "B">>, 0>>,
       <<"W", <<".", ".", "B", ".">>, 0>>, <<"B", <<".", ".", "B", "W">>, 0>>,
       <<"B", <<".", "W", "B", ".">>, 0>>, <<"W", <<".", "W", "B", ".">>, 1>>,
       <<"W", <<".", "W", "B", "B">>, 0>>, <<"B", <<".", ".", "B", ".">>, 1>>,
       <<"B", <<"W", ".", "B", ".">>, 0>>, <<"W", <<"W", ".", ".", ".">>, 2>>,
       <<"W", <<"W", ".", ".", "B">>, 1>>, <<"W", <<"W", ".", "B", ".">>, 1>>,
       <<"W", <<"W", ".", "B", "B">>, 0>>, <<"W", <<".", "B", ".", ".">>, 0>>,
       <<"B", <<".", "B", ".", "W">>, 0>>, <<"B", <<".", "B", "B", "W">>, 0>>,
       <<"B", <<".", "B", "W", ".">>, 0>>, <<"B", <<".", "B", "W", "B">>, 0>>,
       <<"B", <<".", "B", ".", ".">>, 1>>, <<"B", <<".", "B", ".", "B">>, 1>>,
       <<"B", <<".", "B", "B", ".">>, 1>>, <<"B", <<"W", "B", ".", ".">>, 0>>,
       <<"B", <<"W", "B", ".", "B">>, 0>>, <<"B", <<"W", "B", "B", ".">>, 0>>,
       <<"W", <<".", ".", ".", ".">>, 1>>, <<"W", <<".", ".", ".", "W">>, 2>>,
       <<"W", <<".", "B", ".", "W">>, 1>>, <<"W", <<".", ".", "W", "B">>, 1>>,
       <<"W", <<".", ".", "W", ".">>, 2>>, <<"W", <<".", "B", "W", ".">>, 1>>,
       <<"W", <<".", "W", ".", ".">>, 2>>, <<"W", <<".", "W", ".", "B">>, 1>>,
       <<"W", <<"B", ".", ".", ".">>, 0>>, <<"B", <<"B", ".", ".", "W">>, 0>>,
       <<"B", <<"B", ".", "B", "W">>, 0>>, <<"W", <<"B", ".", ".", "W">>, 1>>,
       <<"W", <<"B", "B", ".", "W">>, 0>>, <<"B", <<"B", ".", "W", ".">>, 0>>,
       <<"W", <<"B", ".", "W", "B">>, 0>>, <<"W", <<"B", ".", "W", ".">>, 1>>,
       <<"W", <<"B", "B", "W", ".">>, 0>>, <<"B", <<"B", ".", ".", ".">>, 1>>,
       <<"B", <<"B", ".", "B", ".">>, 1>>, <<"B", <<"B", "W", ".", ".">>, 0>>,
       <<"W", <<"B", "W", ".", ".">>, 1>>, <<"W", <<"B", "W", ".", "B">>, 0>>,
       <<"B", <<"B", "W", "B", ".">>, 0>>
    >>

\* The map as construction leaves it: every key with its node as built
\* (@@ yields the map as an explicit function, the form nodes_dict has).
ConstructedDict ==
    [k \in Keys |->
        [Node(k[2], k[1], k[3]) EXCEPT !.is_terminal = nodes_dict[k].is_terminal]]
    @@ <<>>

RECURSIVE Iterations(_, _)
\* n rounds of the loop at line 86 from the map and regret buffer in st.
Iterations(st, n) ==
    IF n = 0 THEN st
    ELSE LET f == ForwardRange(st.dict, 1, Len(nodes))
             b == BackwardRange([dict |-> f, regret |-> st.regret], 1, Len(nodes))
         IN  IF <<f = f, b = b>> = <<TRUE, TRUE>> THEN Iterations(b, n - 1) ELSE b

\* What train(n) leaves in the map, as a function of the constructed list,
\* the constructed map and n alone.
TrainResult(n) ==
    LET st == Iterations([dict |-> ConstructedDict, regret |-> ZeroVec], n)
    IN  [k \in Keys |-> IF st.dict[k].is_terminal THEN st.dict[k]
                        ELSE getAverageStrategy(st.dict[k])]

PresentPairs(n, acts) ==
    SelectSeq(successor_pairs(n, acts), LAMBDA p : p[2] \in Keys)

AbsentPairs(n, acts) ==
    SelectSeq(successor_pairs(n, acts), LAMBDA p : p[2] \notin Keys)

\* The node the backward loop takes in its round i.
BackwardKey(i) == nodes[Len(nodes) + 1 - i]

\* C13: a derived successor that is no key of the map is passed over in both
\* passes.  Taken alone it changes neither the map nor the regret buffer, and
\* a round of either loop leaves what it would leave had the absent
\* successors never been derived.
C13_AbsentSuccessorSkipped ==
    [][/\ phase = "forward" =>
            LET key == nodes[idx]
                d1 == [nodes_dict EXCEPT ![key] = getStrategy(@)]
                absent == AbsentPairs(d1[key], d1[key].pos_actions)
            IN  /\ \A i \in DOMAIN absent :
                       forward_children(d1, key, <<absent[i]>>) = d1
                /\ nodes_dict' = forward_children(d1, key,
                                     PresentPairs(d1[key], d1[key].pos_actions))
                /\ regret' = regret
       /\ (phase = "backward" /\ terminal_utility(nodes_dict[BackwardKey(idx)]) = "none") =>
            LET key == BackwardKey(idx)
                d1 == [nodes_dict EXCEPT ![key] = getStrategy(@)]
                st == [dict |-> d1, regret |-> regret]
                absent == AbsentPairs(d1[key], AllActions)
                s2 == backward_children(st, key, PresentPairs(d1[key], AllActions))
            IN  /\ \A i \in DOMAIN absent :
                       backward_children(st, key, <<absent[i]>>) = st
                /\ nodes_dict' = [s2.dict EXCEPT
                                     ![key] = reset_reach(update_regrets(@, s2.regret))]
                /\ regret' = s2.regret]_vars

\* C13 witness: the backward pass has just updated a node, after the forward
\* pass, that has a derived successor outside the map and one inside it
\* whose utility counted.
C13_Witness ==
    /\ phase = "backward" /\ idx > 1
    /\ LET n == nodes_dict[BackwardKey(idx - 1)]
       IN  /\ n.T > 0
           /\ AbsentPairs(n, AllActions) # <<>>
           /\ \E i \in DOMAIN PresentPairs(n, AllActions) :
                 nodes_dict[PresentPairs(n, AllActions)[i][2]].u # RZero

\* The attributes that make up a generator's state.
GeneratorState ==
    {"board", "info_states", "moves_and_boards", "move_stack", "history_buffer"}

\* C14: a constructor call with a board whose number of cells differs from
\* rows * cols ends with ValueError and has assigned none of board,
\* info_states, moves_and_boards, move_stack and history_buffer; with the
\* right number of cells it raises nothing and assigns them all.
C14_MalformedBoardFatal ==
    phase \in {"gen_ready", "gen_failed"} =>
        IF Len(sample.initial_board) # sample.num_rows * sample.num_cols
        THEN /\ phase = "gen_failed"
             /\ gen.raised = "ValueError"
             /\ gen.attrs \cap GeneratorState = {}
        ELSE /\ phase = "gen_ready"
             /\ gen.raised = "none"
             /\ GeneratorState \subseteq gen.attrs
             /\ gen.board = sample.initial_board

\* C14 witness: a constructor call with a board of too many cells has failed.
C14_Witness ==
    /\ phase = "gen_failed"
    /\ Len(sample.initial_board) > sample.num_rows * sample.num_cols
    /\ gen.raised = "ValueError"

\* C15 as claimed: when the backward pass comes to a node that takes the
\* regret update, the regret buffer is zero, and the value the update uses
\* for action a is the sum of childUtil over the node's own successors in the
\* map: regretSum is the one computed from a buffer zeroed for the node.
C15_RegretScratchPerNode ==
    [][(phase = "backward" /\ terminal_utility(nodes_dict[BackwardKey(idx)]) = "none") =>
          LET key == BackwardKey(idx)
              d1 == [nodes_dict EXCEPT ![key] = getStrategy(@)]
              own == backward_children([dict |-> d1, regret |-> ZeroVec], key,
                                       successor_pairs(d1[key], AllActions))
          IN  /\ regret = ZeroVec
              /\ regret' = own.regret
              /\ nodes_dict'[key].regretSum =
                     update_regrets(own.dict[key], own.regret).regretSum]_vars

\* C16 as claimed: at the end of iteration it, every node's strategySum[a] is
\* what it was at the start of that iteration plus, once, strategy[a] times
\* the reach weight the iteration's forward pass accumulates at the node.
C16_StrategySumOncePerIteration ==
    IterationEnd =>
        LET start == Iterations([dict |-> ConstructedDict, regret |-> ZeroVec], it - 1)
            full == ForwardRange(start.dict, 1, Len(nodes))
        IN  \A k \in Keys : \A a \in Cells :
               nodes_dict[k].strategySum[a] =
                   RAdd(start.dict[k].strategySum[a],
                        RMul(full[k].strategy[a], reach_weight(full[k])))

\* The second or a later iteration is under way.
LaterIteration == it >= 1 /\ phase \in {"forward", "backward"}

\* C17: from the second iteration on every node has visits = pSum1 =
\* pSum2 = 0 throughout both passes, no step of either pass changes any
\* node's regretSum, strategySum or T, and the average strategies train(n)
\* leaves for n >= 1 are those train(1) leaves.
C17_LaterIterationsIdle ==
    /\ [](LaterIteration =>
             \A k \in Keys : /\ nodes_dict[k].visits = 0
                             /\ nodes_dict[k].pSum1 = RZero
                             /\ nodes_dict[k].pSum2 = RZero)
    /\ [][LaterIteration =>
             \A k \in Keys : /\ nodes_dict'[k].regretSum = nodes_dict[k].regretSum
                             /\ nodes_dict'[k].strategySum = nodes_dict[k].strategySum
                             /\ nodes_dict'[k].T = nodes_dict[k].T]_vars
    /\ []((phase = "done" /\ num_it >= 1) =>
             \A k \in Keys : nodes_dict[k].strategySum = TrainResult(1)[k].strategySum)

\* C17 witness: in the backward pass of a later iteration a node has just
\* been through the regret update, holding regrets of the first iteration.
C17_Witness ==
    /\ LaterIteration /\ phase = "backward" /\ idx > 1
    /\ LET n == nodes_dict[BackwardKey(idx - 1)]
       IN  /\ ~n.is_terminal
           /\ n.T > 0
           /\ \E a \in Cells : n.regretSum[a] # RZero

\* C18: every successor key derived from a node carries the node's player,
\* and every derived successor found in the map is a node of that player,
\* so that childUtil is the child's u and never its negation.
C18_ChildSamePlayer ==
    \A k \in Keys :
        LET n == nodes_dict[k]
        IN  \A a \in Cells : \A i \in DOMAIN children_of(n, a) :
               LET c == children_of(n, a)[i]
               IN  /\ c[1] = n.player
                   /\ c \in Keys =>
                         /\ nodes_dict[c].player = n.player
                         /\ childUtil(n, nodes_dict[c]) = nodes_dict[c].u

\* C18 witness: the backward pass is about to update a node one of whose
\* successors in the map is a terminal node with u = 1, which negated would
\* be -1.
C18_Witness ==
    /\ phase = "backward" /\ idx <= Len(nodes)
    /\ LET n == nodes_dict[BackwardKey(idx)]
       IN  /\ ~n.is_terminal
           /\ \E a \in Cells : \E i \in DOMAIN children_of(n, a) :
                 LET c == children_of(n, a)[i]
                 IN  /\ c \in Keys
                     /\ nodes_dict[c].is_terminal
                     /\ nodes_dict[c].u = ROne
                     /\ RNeg(nodes_dict[c].u) # nodes_dict[c].u

\* C19: in a round of the backward loop a node flagged is_terminal gets its
\* u from the winner of its board and keeps its regretSum and T; a node not
\* flagged goes through the loop over its successors and the regret update.
C19_TerminalBranchIffFlag ==
    [][phase = "backward" =>
          LET key == BackwardKey(idx)
              n == nodes_dict[key]
              after == nodes_dict'[key]
              status == Hex_game_status(n.board, FALSE, "none", 0)
              d1 == [nodes_dict EXCEPT ![key] = getStrategy(@)]
              s2 == backward_children([dict |-> d1, regret |-> regret], key,
                                      successor_pairs(d1[key], AllActions))
          IN  IF n.is_terminal
              THEN /\ status # "="
                   /\ after.u = IF status = n.player THEN RInt(1) ELSE RInt(-1)
                   /\ after.regretSum = n.regretSum
                   /\ after.T = n.T
                   /\ regret' = regret
              ELSE /\ status = "="
                   /\ after.u = s2.dict[key].u
                   /\ after.regretSum = update_regrets(s2.dict[key], s2.regret).regretSum
                   /\ after.T = n.T + n.visits
                   /\ regret' = s2.regret]_vars

\* C19 witness: in the first backward pass a terminal node has got its
\* utility and a node that is not terminal has had its regret update.
C19_Witness ==
    /\ phase = "backward" /\ it = 0 /\ idx > 1
    /\ \E k \in Keys : nodes_dict[k].is_terminal /\ nodes_dict[k].u = ROne
    /\ \E k \in Keys : /\ ~nodes_dict[k].is_terminal
                       /\ nodes_dict[k].T > 0
                       /\ \E a \in Cells : nodes_dict[k].regretSum[a] # RZero

\* The legal actions of node n that have c among their derived successors.
ActionsTo(n, c) ==
    {a \in Cells : /\ n.board[a] = NEUTRAL
                   /\ \E i \in DOMAIN children_of(n, a) : children_of(n, a)[i] = c}

\* C20: in a round of the forward loop at a node, each node of the map that
\* is a derived successor for a legal action a gains the node's visits, gains
\* strategy[a] times the node's reach sum in the slot of the node's player
\* and the node's other reach sum unscaled; every other node but the node
\* itself is left as it was, and the node keeps its visits and reach sums.
C20_ForwardPropagation ==
    [][phase = "forward" =>
          LET key == nodes[idx]
              n == nodes_dict[key]
              strategy == nodes_dict'[key].strategy
          IN  /\ strategy = regret_matching(n.regretSum)
              /\ nodes_dict'[key].visits = n.visits
              /\ nodes_dict'[key].pSum1 = n.pSum1
              /\ nodes_dict'[key].pSum2 = n.pSum2
              /\ \A c \in Keys \ {key} :
                    LET child == nodes_dict[c]
                        after == nodes_dict'[c]
                        acts == ActionsTo(n, c)
                    IN  IF acts = {} THEN after = child
                        ELSE /\ Cardinality(acts) = 1
                             /\ \A a \in acts :
                                   /\ after.visits = child.visits + n.visits
                                   /\ after.pSum1 = RAdd(child.pSum1,
                                          IF n.player = C_PLAYER1
                                          THEN RMul(strategy[a], n.pSum1) ELSE n.pSum1)
                                   /\ after.pSum2 = RAdd(child.pSum2,
                                          IF n.player = C_PLAYER2
                                          THEN RMul(strategy[a], n.pSum2) ELSE n.pSum2)
                                   /\ [after EXCEPT !.visits = child.visits,
                                                    !.pSum1 = child.pSum1,
                                                    !.pSum2 = child.pSum2] = child]_vars

\* C20 witness: the forward pass of the first iteration has just passed a
\* node with positive reach on to a successor, which now holds a scaled reach
\* sum that differs from its unscaled one.
C20_Witness ==
    /\ phase = "forward" /\ it = 0 /\ idx > 1
    /\ LET n == nodes_dict[nodes[idx - 1]]
       IN  /\ n.visits > 0
           /\ RPos(n.pSum1) /\ RPos(n.pSum2)
           /\ \E c \in Keys \ {nodes[idx - 1]} :
                 /\ ActionsTo(n, c) # {}
                 /\ nodes_dict[c].visits > 1
                 /\ nodes_dict[c].pSum1 # nodes_dict[c].pSum2

\* C21: whenever the backward pass takes a node through the regret update,
\* the denominator T + visits is strictly positive (the node never has
\* visits = 0 together with T = 0), in the first iteration and in every later
\* one; and the step leaves T + visits in T.
C21_DenominatorPositive ==
    /\ []((/\ phase = "backward" /\ idx <= Len(nodes)
           /\ terminal_utility(nodes_dict[BackwardKey(idx)]) = "none") =>
             LET n == nodes_dict[BackwardKey(idx)]
             IN  /\ n.T >= 0 /\ n.visits >= 0
                 /\ n.T + n.visits > 0
                 /\ ~(n.visits = 0 /\ n.T = 0))
    /\ [][(phase = "backward" /\ terminal_utility(nodes_dict[BackwardKey(idx)]) = "none") =>
             LET n == nodes_dict[BackwardKey(idx)]
             IN  /\ nodes_dict'[BackwardKey(idx)].T = n.T + n.visits
                 /\ \A a \in Cells :
                       nodes_dict'[BackwardKey(idx)].regretSum[a][2] > 0]_vars

\* C21 witness: the backward pass of a later iteration is about to update a
\* node that the forward pass left with visits = 0 and that holds T > 0 from
\* the first iteration.
C21_Witness ==
    /\ phase = "backward" /\ it >= 1 /\ idx <= Len(nodes)
    /\ LET n == nodes_dict[BackwardKey(idx)]
       IN  /\ terminal_utility(n) = "none"
           /\ n.visits = 0
           /\ n.T > 0

\* The list s holds every key of the map exactly once, and each node of the
\* map is stored under its own infoSet.
SameNodesOnce(s) ==
    /\ \A i \in DOMAIN s : s[i] \in Keys /\ nodes_dict[s[i]].infoSet = s[i]
    /\ \A i, j \in DOMAIN s : s[i] = s[j] => i = j
    /\ Len(s) = Cardinality(Keys)
    /\ \A k \in Keys : /\ nodes_dict[k].infoSet = k
                       /\ k = get_infoset(nodes_dict[k].player, nodes_dict[k].board,
                                          nodes_dict[k].h)

\* C22: the ordered node list and the infoset map hold the same nodes, each
\* exactly once: every list element is a key of the map whose node carries
\* that key as its infoSet, no two list elements share a key, and the list is
\* as long as the map has keys.  This holds of the completion stack all
\* through construction, and of FSICFR.nodes after construction and through
\* any number of training iterations.
C22_ListAndMapSameNodes ==
    /\ SameNodesOnce(stack)
    /\ phase # "build" => SameNodesOnce(nodes)

\* C22 witness: train has run two iterations over a list of more than one
\* node built from a map that construction found some node's key in twice
\* (fewer nodes than full-board keys visited).
C22_Witness ==
    /\ phase = "done" /\ num_it = 2
    /\ Len(nodes) > 1
    /\ Cardinality(Keys) < Cardinality(visited)

\* train is running: from its call to its return.
InTrain == phase \in {"built", "forward", "backward", "extract"}

\* Node new with the fields train may write taken from node old.
WithTrainedFieldsOf(new, old) ==
    [new EXCEPT !.strategy = old.strategy, !.strategySum = old.strategySum,
                !.regretSum = old.regretSum, !.T = old.T, !.u = old.u,
                !.visits = old.visits, !.pSum1 = old.pSum1, !.pSum2 = old.pSum2]

\* C23: no step of train adds, removes or reorders nodes, and none changes a
\* node's player, board, h, infoSet, pos_actions or is_terminal: a node
\* differs after the step in no field other than strategy, strategySum,
\* regretSum, T, u, visits, pSum1 and pSum2.
C23_TrainFrame ==
    [][InTrain =>
          /\ nodes' = nodes
          /\ DOMAIN nodes_dict' = DOMAIN nodes_dict
          /\ \A k \in Keys :
                LET old == nodes_dict[k]
                    new == nodes_dict'[k]
                IN  /\ new.player = old.player
                    /\ new.board = old.board
                    /\ new.h = old.h
                    /\ new.infoSet = old.infoSet
                    /\ new.pos_actions = old.pos_actions
                    /\ new.is_terminal = old.is_terminal
                    /\ WithTrainedFieldsOf(new, old) = old]_vars

\* C23 witness: train has returned having written every one of the eight
\* fields of some non-terminal node that has a successor in the map.
C23_Witness ==
    /\ phase = "done" /\ num_it >= 1
    /\ \E k \in Keys :
          LET n == nodes_dict[k]
              made == Node(n.board, n.player, n.h)
          IN  /\ ~n.is_terminal
              /\ SuccessorsInMap(k) # {}
              /\ n.strategy # made.strategy
              /\ n.strategySum # made.strategySum
              /\ n.regretSum # made.regretSum
              /\ n.T # made.T
              /\ n.u # made.u
              /\ n.visits # made.visits
              /\ n.pSum1 # made.pSum1
              /\ n.pSum2 # made.pSum2

\* C24: at every node regretSum[a] is 0 for every occupied cell a, in every
\* state of construction and training; no step lowers a node's T; and when
\* some legal action has positive regret, getStrategy gives probability 0 to
\* every occupied cell and a distribution over the legal actions.
C24_OccupiedCellsNoRegret ==
    /\ [](\A k \in Keys :
             LET n == nodes_dict[k]
                 occupied == {a \in Cells : n.board[a] # NEUTRAL}
                 strategy == getStrategy(n).strategy
             IN  /\ \A a \in occupied : n.regretSum[a] = RZero
                 /\ n.T >= 0
                 /\ (\E b \in Cells \ occupied : RPos(n.regretSum[b])) =>
                       /\ \A a \in occupied : strategy[a] = RZero
                       /\ IsDistribution(strategy))
    /\ [][\A k \in Keys : nodes_dict'[k].T >= nodes_dict[k].T]_vars

\* C24 witness: in a later iteration getStrategy has run on a node with an
\* occupied cell and a legal action of positive regret: its strategy is 0 on
\* the occupied cell and positive on the legal action.
C24_Witness ==
    /\ phase \in {"forward", "backward"} /\ it >= 1
    /\ \E k \in Keys :
          LET n == nodes_dict[k]
          IN  /\ n.T > 0
              /\ \E a, b \in Cells :
                    /\ n.board[a] # NEUTRAL /\ n.board[b] = NEUTRAL
                    /\ RPos(n.regretSum[b])
                    /\ n.strategy = regret_matching(n.regretSum)
                    /\ n.strategy[a] = RZero
                    /\ RPos(n.strategy[b])

\* The stones on the two players' boards of engine state g.
StonesSeen(g) == Stones(g.BOARDS[C_PLAYER1]) + Stones(g.BOARDS[C_PLAYER2])

\* The engine is in the state the innermost call of __topSort_play was
\* entered with: the call is in its loop with no move of its own played.
AtLoopHead == phase = "build" /\ call = "none" /\ ~returned /\ frames # <<>>

\* C25: construction ends, and on the way (a) a call goes on to its loop
\* only with a full-board key not yet visited, which it marks, and marks are
\* never taken back, so no key is expanded twice; (b) every move played in
\* the loop puts one stone on one player's board; (c) no call for a terminal
\* result reaches the loop; (d) when a call is back in its loop after a move
\* and the call made for it, the engine is as it was before the move, and
\* when construction ends the engine is as it began.
C25_ConstructionTerminates ==
    /\ <>(phase = "built")
    /\ [][phase = "build" =>
             /\ visited \subseteq visited'
             /\ Len(frames') > Len(frames) =>
                   /\ call \in {"=", "f"}
                   /\ ext_infoSet(game) \notin visited
                   /\ ext_infoSet(game) \in visited'
                   /\ ~frames'[Len(frames')].node.is_terminal
             /\ game' # game =>
                   \/ /\ StonesSeen(game') = StonesSeen(game) + 1
                      /\ history' = Append(history, game)
                      /\ call' # "none"
                   \/ /\ returned
                      /\ history = Append(history', game')]_vars
    /\ [](AtLoopHead =>
             LET top == frames[Len(frames)]
             IN  /\ Len(history) = Len(frames) - 1
                 /\ game.BOARDS[top.node.player] = top.node.board
                 /\ totalHidden_for_player(game, top.node.player) = top.node.h
                 /\ ext_infoSet(game) \in visited
                 /\ Hex_game_status(game.BOARD, FALSE, "none", 0) = "="
                 /\ \A i \in DOMAIN frames : ~frames[i].node.is_terminal)
    /\ [](phase = "built" => (game = DarkHex_new /\ history = <<>> /\ frames = <<>>))

\* C25 witness: construction has ended with more than one node, some of them
\* terminal, and with the engine back at the empty boards.
C25_Witness ==
    /\ phase = "built"
    /\ game = DarkHex_new
    /\ Cardinality(visited) > Len(nodes) /\ Len(nodes) > 1
    /\ \E k \in Keys : nodes_dict[k].is_terminal

\* C26: a second call of getAverageStrategy, with no training in between,
\* returns the vector the first call returned: the vector the first call
\* leaves in strategySum sums to 1, whether it was normalized or is the
\* uniform fallback, and the second call leaves it as it is.
C26_AverageStrategyIdempotent ==
    /\ [](phase \in {"unit_average", "unit_average_again"} =>
             /\ RSum(UnitNode.strategySum) = ROne
             /\ getAverageStrategy(UnitNode).strategySum = UnitNode.strategySum)
    /\ [][phase = "unit_average" =>
             nodes_dict'[UnitKey].strategySum = nodes_dict[UnitKey].strategySum]_vars

\* C26 witness: the second call has been made on a node whose strategySum two
\* rounds of training had brought to a total of 2, unevenly spread.
C26_Witness ==
    /\ phase = "unit_average_again"
    /\ "round" \in DOMAIN sample /\ sample.round = 2
    /\ UnitNode.T > 0
    /\ \E a, b \in Cells : /\ UnitNode.strategySum[a] # UnitNode.strategySum[b]
                           /\ RPos(UnitNode.strategySum[a])
                           /\ RPos(UnitNode.strategySum[b])


\* The step is a call of iterate_board that returns success = False.
RejectedCall ==
    /\ sample'.op = "iterate_board"
    /\ sample'.ops = sample.ops + 1
    /\ ~sample'.ret.success

\* C27 as claimed: a call of iterate_board that is rejected returns end_game
\* = False and leaves board, info_states, moves_and_boards, move_stack and
\* the history buffer as they were.
C27_RejectedCallChangesNothing ==
    [][RejectedCall =>
          /\ ~sample'.ret.end_game
          /\ gen'.board = gen.board
          /\ gen'.info_states = gen.info_states
          /\ gen'.moves_and_boards = gen.moves_and_boards
          /\ gen'.move_stack = gen.move_stack
          /\ gen'.history_buffer = gen.history_buffer]_vars

\* The last operation was a successful iterate_board that made a board
\* popped from move_stack current (the game did not end).
BoardMadeCurrent ==
    /\ sample.op = "iterate_board"
    /\ sample.ret.success
    /\ ~sample.ret.end_game

\* C28 as claimed: the board a successful iterate_board pops from move_stack
\* and makes current has no entry in info_states at that moment, so its
\* strategy cannot be overwritten by the next call, with or without
\* include_isomorphic.
C28_CurrentBoardNotRecorded ==
    BoardMadeCurrent => gen.board \notin DOMAIN gen.info_states

\* The four fields of the generator that the history buffer keeps.
Kept(g) ==
    [board |-> g.board, info_states |-> g.info_states,
     moves_and_boards |-> g.moves_and_boards, move_stack |-> g.move_stack]

\* The i-th snapshot of a history buffer.
Snapshot(buffer, i) ==
    [board |-> buffer.board[i], info_states |-> buffer.info_states[i],
     moves_and_boards |-> buffer.moves_and_boards[i],
     move_stack |-> buffer.move_stack[i]]

\* Each of the four history lists of b2 is the list of b1 with its last
\* snapshot taken off.
ShorterByOne(b2, b1) ==
    /\ b2.board = ButLast(b1.board)
    /\ b2.info_states = ButLast(b1.info_states)
    /\ b2.moves_and_boards = ButLast(b1.moves_and_boards)
    /\ b2.move_stack = ButLast(b1.move_stack)

\* The step is a call of iterate_board that returns success = True.
SuccessfulCall ==
    /\ sample'.op = "iterate_board"
    /\ sample'.ops = sample.ops + 1
    /\ sample'.ret.success

\* The step is a rewind called right after a successful iterate_board.
RewindAfterSuccess ==
    /\ sample.op = "iterate_board"
    /\ sample.ret.success
    /\ sample'.op = "rewind"
    /\ sample'.ops = sample.ops + 1

SameLength(buffer) ==
    /\ Len(buffer.info_states) = Len(buffer.board)
    /\ Len(buffer.moves_and_boards) = Len(buffer.board)
    /\ Len(buffer.move_stack) = Len(buffer.board)

\* The step is a rewind called on a buffer that holds one snapshot.
RewindOnInitial ==
    /\ sample'.op = "rewind"
    /\ sample'.ops = sample.ops + 1
    /\ Len(gen.history_buffer.info_states) = 1

\* C30: rewind on a history buffer that holds only the initial snapshot
\* returns "Cannot rewind anymore." and changes neither the buffer nor the
\* generator; in every reachable state, after restart too, the four history
\* lists have the same length, which is at least 1.
C30_RewindBottomAndListLengths ==
    /\ [](/\ SameLength(gen.history_buffer)
          /\ Len(gen.history_buffer.board) >= 1)
    /\ [](sample.op = "restart" =>
             /\ SameLength(gen.history_buffer)
             /\ Len(gen.history_buffer.board) = 1)
    /\ [][RewindOnInitial =>
             /\ sample'.ret.log = "Cannot rewind anymore.\n"
             /\ gen' = gen]_vars

\* C30 happens: rewind has been refused on a buffer of one snapshot while the
\* generator held moves_and_boards of a rejected call, which it keeps.
C30_Witness ==
    /\ sample.op = "rewind"
    /\ sample.ret.log = "Cannot rewind anymore.\n"
    /\ Len(gen.history_buffer.board) = 1
    /\ gen.moves_and_boards # <<>>
    /\ gen.moves_and_boards # gen.history_buffer.moves_and_boards[1]

====
